---- MODULE Spec2Model ----
(***************************************************************************)
(* Model of the auto-move-organized plugin (src/auto_move_organized.py):   *)
(* template resolution, path sanitisation, the file mover, the post-move   *)
(* processing and the hook/task orchestrator.                              *)
(*                                                                         *)
(* Strings are sequences of one-character strings, so that splitting,      *)
(* stripping and sanitising are computed and not assumed.  Paths follow    *)
(* the POSIX flavour of os.path (separator "/").                           *)
(***************************************************************************)
EXTENDS Integers, Sequences, FiniteSets, TLC

VARIABLES
    settings,      \* the settings dict returned by load_settings
    args,          \* plugin arguments: [mode, hook_id |-> hookContext.id or None]
    scenes,        \* what stash.find_scenes returns, over all pages
    files,         \* filesystem: path -> content of every regular file
    dirs,          \* filesystem: set of existing directories
    files0,        \* the regular files at the start of the run
    dirs0,         \* the directories at the start of the run
    pc,            \* position of handle_hook_or_task
    index,         \* enumerate(scenes, start=1) position of the bulk loop
    fidx,          \* position of process_scene's loop over scene.files
    moved_count,   \* process_scene's moved_count
    organized_scenes, \* handle_hook_or_task's organized_scenes
    total_moved,   \* handle_hook_or_task's total_moved
    calls,         \* one record per move_file call that returned, in order
    inflight,      \* the move_file call that is post-processing
    progress,      \* task_log progress values, in emission order
    msg,           \* the message handle_hook_or_task returned
    pt_in,         \* build_target_path harness: the inputs
    pt_out,        \* build_target_path harness: the result
    pt_pc          \* build_target_path harness: position

vars == <<settings, args, scenes, files, dirs, files0, dirs0, pc, index, fidx,
          moved_count, organized_scenes, total_moved, calls, inflight, progress,
          msg, pt_in, pt_out, pt_pc>>

pipeVars == <<settings, args, scenes, files, dirs, files0, dirs0, pc, index,
              fidx, moved_count, organized_scenes, total_moved, calls, inflight,
              progress, msg>>

pathVars == <<pt_in, pt_out, pt_pc>>

-----------------------------------------------------------------------------
(* Bounds of the model *)

\* longest scene list a bulk run returns
MaxScenes == 2
\* longest title drawn for the build_target_path harness
MaxTitleLen == 2

-----------------------------------------------------------------------------
(* Strings *)

Max(S) == CHOOSE x \in S : \A y \in S : y <= x

\* str.rfind for a single character; 0 when absent (positions are 1-based)
RFind(s, c) ==
    LET I == {i \in 1..Len(s) : s[i] = c}
    IN  IF I = {} THEN 0 ELSE Max(I)

Whitespace == {" ", "\t", "\n", "\r"}

\* str.lstrip(chars)
RECURSIVE LStrip(_, _)
LStrip(s, cs) ==
    IF s # <<>> /\ Head(s) \in cs THEN LStrip(Tail(s), cs) ELSE s

\* str.rstrip(chars)
RECURSIVE RStrip(_, _)
RStrip(s, cs) ==
    IF s # <<>> /\ s[Len(s)] \in cs
    THEN RStrip(SubSeq(s, 1, Len(s) - 1), cs)
    ELSE s

\* a strip that keeps the surrounding whitespace
Keep(s) == s

\* str.strip()
Strip(s) == RStrip(LStrip(s, Whitespace), Whitespace)

\* str.replace / re.sub of single characters by one character
ReplaceChars(s, cs, by) == [i \in 1..Len(s) |-> IF s[i] \in cs THEN by ELSE s[i]]

StartsWith(s, p) == Len(p) <= Len(s) /\ SubSeq(s, 1, Len(p)) = p

EndsWith(s, p) ==
    Len(p) <= Len(s) /\ SubSeq(s, Len(s) - Len(p) + 1, Len(s)) = p

\* sep.join(parts)
RECURSIVE JoinWith(_, _)
JoinWith(parts, sep) ==
    IF parts = <<>> THEN <<>>
    ELSE IF Len(parts) = 1 THEN parts[1]
    ELSE parts[1] \o sep \o JoinWith(Tail(parts), sep)

Digit == {"0", "1", "2", "3", "4", "5", "6", "7", "8", "9"}

\* str(n) for a small natural number
IntStr(n) ==
    LET d == <<"0", "1", "2", "3", "4", "5", "6", "7", "8", "9">>
    IN  IF n < 10 THEN <<d[n + 1]>> ELSE <<d[(n \div 10) + 1], d[(n % 10) + 1]>>

\* Python's None; str(None) = "None"
None == <<"None">>

Str(v) == IF v = None THEN <<"N", "o", "n", "e">> ELSE v

-----------------------------------------------------------------------------
(* os.path, POSIX flavour *)

\* os.path.splitext: the extension starts at the last dot of the last
\* component, unless only dots precede it in that component
SplitExt(p) ==
    LET sepIndex == RFind(p, "/")
        dotIndex == RFind(p, ".")
    IN  IF dotIndex > sepIndex
           /\ \E k \in (sepIndex + 1)..(dotIndex - 1) : p[k] # "."
        THEN <<SubSeq(p, 1, dotIndex - 1), SubSeq(p, dotIndex, Len(p))>>
        ELSE <<p, <<>>>>

\* os.path.basename
Basename(p) == SubSeq(p, RFind(p, "/") + 1, Len(p))

\* os.path.dirname
Dirname(p) ==
    LET head == SubSeq(p, 1, RFind(p, "/"))
    IN  IF head # <<>> /\ \E k \in 1..Len(head) : head[k] # "/"
        THEN RStrip(head, {"/"})
        ELSE head

\* os.path.join(a, b)
PathJoin(a, b) ==
    IF b # <<>> /\ Head(b) = "/" THEN b
    ELSE IF a = <<>> \/ a[Len(a)] = "/" THEN a \o b
    ELSE a \o <<"/">> \o b

\* os.path.join(*parts) for a non-empty list
RECURSIVE PathJoinAll(_)
PathJoinAll(parts) ==
    IF Len(parts) = 1 THEN parts[1]
    ELSE PathJoin(PathJoinAll(SubSeq(parts, 1, Len(parts) - 1)), parts[Len(parts)])

\* the directories os.makedirs(p) has to find or create: p and its ancestors
RECURSIVE Ancestors(_)
Ancestors(p) ==
    IF p = <<>> \/ (\A k \in 1..Len(p) : p[k] = "/") THEN {}
    ELSE {p} \cup Ancestors(Dirname(p))

-----------------------------------------------------------------------------
(* Path sanitizer *)

IllegalChars == {"<", ">", ":", "\"", "|", "?", "*"}

PathSeps == {"\\", "/"}

\* a sanitizer without the fallback for an empty result
BareSegment(segment) ==
    ReplaceChars(ReplaceChars(Strip(segment), PathSeps, "_"), IllegalChars, "_")

safe_segment(segment) ==
    LET s1 == ReplaceChars(Strip(segment), PathSeps, "_")
        s2 == ReplaceChars(s1, IllegalChars, "_")
    IN  IF s2 = <<>> THEN <<"_">> ELSE s2

\* re.split(r"[\\/]+", s): the pieces between runs of separators, empty
\* leading or trailing pieces included
RECURSIVE ReSplit(_, _)
ReSplit(s, cur) ==
    IF s = <<>> THEN <<cur>>
    ELSE IF Head(s) \in PathSeps
         THEN <<cur>> \o ReSplit(LStrip(s, PathSeps), <<>>)
         ELSE ReSplit(Tail(s), Append(cur, Head(s)))

\* SelectSeq with a named test
NonEmptyParts(parts) == SelectSeq(parts, LAMBDA x : x # <<>>)

-----------------------------------------------------------------------------
(* Scene records.  A field that is missing or null in the JSON is a field   *)
(* outside the record's DOMAIN.                                            *)

Has(rec, f) == f \in DOMAIN rec

\* rec.get(f) or ""
GetStr(rec, f) == IF Has(rec, f) THEN rec[f] ELSE <<>>

\* rec.get(f) or []
GetList(rec, f) == IF Has(rec, f) THEN rec[f] ELSE <<>>

\* re.match(r"^(\d{4})-(\d{2})-(\d{2})", scene_date)
DateMatches(d) ==
    /\ Len(d) >= 10
    /\ \A k \in {1, 2, 3, 4, 6, 7, 9, 10} : d[k] \in Digit
    /\ d[5] = "-"
    /\ d[8] = "-"

\* the names of the entries that carry a truthy name
NamesOf(list) ==
    LET named == SelectSeq(list, LAMBDA p : GetStr(p, "name") # <<>>)
    IN  [i \in 1..Len(named) |-> named[i].name]

build_template_vars(scene, file_path) ==
    LET original_basename == Basename(file_path)
        split == SplitExt(original_basename)
        original_name == split[1]
        ext == LStrip(split[2], {"."})
        scene_date == GetStr(scene, "date")
        m == DateMatches(scene_date)
        studio == IF Has(scene, "studio") THEN scene.studio ELSE [x \in {} |-> <<>>]
        performer_names == NamesOf(GetList(scene, "performers"))
        tags_str == JoinWith(NamesOf(GetList(scene, "tags")), <<",", " ">>)
        groups == GetList(scene, "groups")
        stash_ids == GetList(scene, "stash_ids")
        rating100 == IF Has(scene, "rating100") THEN scene.rating100 ELSE None
    IN  [id |-> IF Has(scene, "id") THEN scene.id ELSE None,
         scene_title |-> GetStr(scene, "title"),
         scene_date |-> scene_date,
         date_year |-> IF m THEN SubSeq(scene_date, 1, 4) ELSE <<>>,
         date_month |-> IF m THEN SubSeq(scene_date, 6, 7) ELSE <<>>,
         date_day |-> IF m THEN SubSeq(scene_date, 9, 10) ELSE <<>>,
         studio |-> GetStr(studio, "name"),
         studio_name |-> GetStr(studio, "name"),
         studio_id |-> GetStr(studio, "id"),
         code |-> GetStr(scene, "code"),
         director |-> GetStr(scene, "director"),
         performers |-> JoinWith(performer_names, <<"-">>),
         first_performer |->
             IF performer_names # <<>> THEN performer_names[1] ELSE <<>>,
         performer_count |-> IntStr(Len(performer_names)),
         tag_names |-> tags_str,
         tags |-> tags_str,
         group_name |->
             IF groups # <<>> /\ Has(groups[1], "group")
             THEN GetStr(groups[1].group, "name") ELSE <<>>,
         rating100 |-> rating100,
         rating |-> IF rating100 = None THEN <<>> ELSE rating100,
         original_basename |-> original_basename,
         original_name |-> original_name,
         ext |-> ext,
         external_id |->
             IF stash_ids # <<>> THEN GetStr(stash_ids[1], "stash_id") ELSE <<>>]

-----------------------------------------------------------------------------
(* Template resolver.  A template is a sequence of tokens: a literal       *)
(* character [t |-> "lit", v |-> c] or a placeholder [t |-> "var",         *)
(* v |-> name].                                                            *)

Lit(c) == [t |-> "lit", v |-> c]

Var(k) == [t |-> "var", v |-> k]

IsBlank(tok) == tok.t = "lit" /\ tok.v \in Whitespace

\* template.strip() on tokens
RECURSIVE StripTemplate(_)
StripTemplate(tpl) ==
    IF tpl # <<>> /\ IsBlank(Head(tpl)) THEN StripTemplate(Tail(tpl))
    ELSE IF tpl # <<>> /\ IsBlank(tpl[Len(tpl)])
         THEN StripTemplate(SubSeq(tpl, 1, Len(tpl) - 1))
         ELSE tpl

\* template.format(**vars_map) raises KeyError on an unknown placeholder
FormatFails(tpl, vars_map) ==
    \E i \in 1..Len(tpl) : tpl[i].t = "var" /\ tpl[i].v \notin DOMAIN vars_map

RECURSIVE Format(_, _)
Format(tpl, vars_map) ==
    IF tpl = <<>> THEN <<>>
    ELSE (IF Head(tpl).t = "lit" THEN <<Head(tpl).v>>
          ELSE Str(vars_map[Head(tpl).v]))
         \o Format(Tail(tpl), vars_map)

\* lines 362-366: split the expanded template and sanitise every piece
CleanParts(rel_path) ==
    LET parts == NonEmptyParts(ReSplit(rel_path, <<>>))
    IN  [i \in 1..Len(parts) |-> safe_segment(parts[i])]

\* lines 368-372: join the pieces, fall back to the original basename, keep
\* the original extension when the result has none
RelPathClean(rel_parts, original_basename, ext) ==
    LET joined == IF rel_parts # <<>> THEN PathJoinAll(rel_parts)
                  ELSE original_basename
    IN  IF SplitExt(joined)[2] = <<>> /\ ext # <<>>
        THEN joined \o <<".">> \o ext
        ELSE joined

\* the result is [ok |-> TRUE, path |-> abs_target], or [ok |-> FALSE,
\* err |-> which RuntimeError was raised]
build_target_path(scene, file_path, s) ==
    LET target_root == Strip(s.target_root)
        template == StripTemplate(s.filename_template)
        vars_map == build_template_vars(scene, file_path)
    IN  IF target_root = <<>>
        THEN [ok |-> FALSE, err |-> "target_root", path |-> <<>>]
        ELSE IF FormatFails(template, vars_map)
        THEN [ok |-> FALSE, err |-> "template", path |-> <<>>]
        ELSE [ok |-> TRUE, err |-> "none",
              path |-> PathJoin(target_root,
                         RelPathClean(CleanParts(Format(template, vars_map)),
                                      vars_map.original_basename,
                                      vars_map.ext))]

-----------------------------------------------------------------------------
(* Harness for build_target_path: the inputs are drawn in the initial      *)
(* state and one step applies the function.                                *)

\* all sequences over S of length at most n
SeqsUpTo(S, n) == UNION {[1..k -> S] : k \in 0..n}

s_Demo == <<"D", "e", "m", "o">>

s_Acme == <<"A", "c", "m", "e">>

s_date == <<"2", "0", "2", "4", "-", "0", "5", "-", "0", "1">>

s_root == <<"/", "t">>

s_video_mp4 == <<"/", "s", "/", "v", "i", "d", "e", "o", ".", "m", "p", "4">>

PtChars == {"D", ".", ":", "/", "\\", " "}

PtTitles == SeqsUpTo(PtChars, MaxTitleLen) \cup {s_Demo}

PtSources ==
    {s_video_mp4,
     <<"/", "s", "/", "a", ":", "b", ".", "m", "p", "4">>,
     <<"/", "s", "/", "x", ".", "m", "?", "4">>,
     <<"/", "s", "/", "n", "o", "e", "x", "t">>}

PtRoots == {s_root, <<" ", "/", "t", " ">>, <<" ">>, <<>>}

\* "{studio}/{scene_date}.{scene_title}"
t_studio_date_title ==
    <<Var("studio"), Lit("/"), Var("scene_date"), Lit("."), Var("scene_title")>>

\* "{scene_title}"
t_title == <<Var("scene_title")>>

\* "{original_basename}", the default of load_settings
t_default == <<Var("original_basename")>>

\* "{studio}/{scene_title}.{ext}"
t_with_ext ==
    <<Var("studio"), Lit("/"), Var("scene_title"), Lit("."), Var("ext")>>

\* "{missing_field}/{scene_title}"
t_missing == <<Var("missing_field"), Lit("/"), Var("scene_title")>>

\* " / "
t_slash == <<Lit(" "), Lit("/"), Lit(" ")>>

PtTemplates ==
    {t_studio_date_title, t_title, t_default, t_with_ext, t_missing, t_slash, <<>>}

PtScenes ==
    {[id |-> <<"1">>, title |-> t, date |-> s_date, studio |-> [name |-> s_Acme]]
        : t \in PtTitles}
    \cup {[id |-> <<"1">>, title |-> t] : t \in PtTitles}

PathInit ==
    /\ pt_in \in [scene : PtScenes, file_path : PtSources,
                  settings : [target_root : PtRoots,
                              filename_template : PtTemplates]]
    /\ pt_out = [ok |-> FALSE, err |-> "none", path |-> <<>>]
    /\ pt_pc = "input"

PtResolve ==
    /\ pt_pc = "input"
    /\ pt_out' = build_target_path(pt_in.scene, pt_in.file_path, pt_in.settings)
    /\ pt_pc' = "done"
    /\ UNCHANGED pt_in

-----------------------------------------------------------------------------
(* Filesystem: fs = [files |-> path -> content, dirs |-> set of paths]     *)

IsRootDir(p) == p # <<>> /\ \A k \in 1..Len(p) : p[k] = "/"

IsFile(fs, p) == p \in DOMAIN fs.files

IsDir(fs, p) == p \in fs.dirs \/ IsRootDir(p)

Exists(fs, p) == IsFile(fs, p) \/ IsDir(fs, p)

\* open(p, "wb") and write: creates or replaces the file
FsWrite(fs, p, c) ==
    [fs EXCEPT !.files =
        [q \in DOMAIN fs.files \cup {p} |-> IF q = p THEN c ELSE fs.files[q]]]

\* os.remove
FsRemove(fs, p) ==
    [fs EXCEPT !.files = [q \in DOMAIN fs.files \ {p} |-> fs.files[q]]]

\* os.makedirs(p, exist_ok=True) raises when p is empty or a component is a
\* regular file
makedirs_raises(fs, p) == p = <<>> \/ \E a \in Ancestors(p) : IsFile(fs, a)

makedirs(fs, p) == [fs EXCEPT !.dirs = @ \cup Ancestors(p)]

\* shutil.move(src, dst) for a regular file src: into dst when dst is a
\* directory, else onto dst, replacing a regular file that is there
real_dst(fs, src, dst) ==
    IF IsDir(fs, dst) THEN PathJoin(dst, Basename(RStrip(src, {"/"}))) ELSE dst

shutil_move_raises(fs, src, dst) ==
    \/ ~IsFile(fs, src)
    \/ IsDir(fs, dst) /\ Exists(fs, real_dst(fs, src, dst))
    \/ LET parent == Dirname(real_dst(fs, src, dst))
       IN  parent # <<>> /\ ~IsDir(fs, parent)

shutil_move(fs, src, dst) ==
    LET to == real_dst(fs, src, dst)
    IN  [fs EXCEPT !.files =
            [q \in (DOMAIN fs.files \ {src}) \cup {to} |->
                IF q = to THEN fs.files[src] ELSE fs.files[q]]]

-----------------------------------------------------------------------------
(* Post-processing of a moved file *)

UpperCase == <<"A", "B", "C", "D", "E", "F", "G", "H", "I", "J", "K", "L", "M",
               "N", "O", "P", "Q", "R", "S", "T", "U", "V", "W", "X", "Y", "Z">>

LowerCase == <<"a", "b", "c", "d", "e", "f", "g", "h", "i", "j", "k", "l", "m",
               "n", "o", "p", "q", "r", "s", "t", "u", "v", "w", "x", "y", "z">>

\* str.lower()
Lower(s) ==
    [i \in 1..Len(s) |->
        IF \E k \in 1..26 : UpperCase[k] = s[i]
        THEN LowerCase[CHOOSE k \in 1..26 : UpperCase[k] = s[i]]
        ELSE s[i]]

\* sub in s
Contains(s, sub) ==
    \E i \in 1..(Len(s) - Len(sub) + 1) : SubSeq(s, i, i + Len(sub) - 1) = sub

SUBTITLE_EXTS ==
    {<<".", "s", "r", "t">>, <<".", "a", "s", "s">>, <<".", "s", "s", "a">>,
     <<".", "v", "t", "t">>, <<".", "s", "u", "b">>, <<".", "s", "u", "p">>}

\* os.listdir(d): the names of the entries directly inside d
ListDir(fs, d) ==
    {Basename(q) : q \in {r \in DOMAIN fs.files \cup fs.dirs : Dirname(r) = d}}

\* a test that takes every regular file of the directory
IsAnyFile(fs, src_dir, src_stem, name) == IsFile(fs, PathJoin(src_dir, name))

\* lines 1367-1378: is this directory entry a subtitle of the source video
IsRelatedSubtitle(fs, src_dir, src_stem, name) ==
    /\ IsFile(fs, PathJoin(src_dir, name))
    /\ Lower(SplitExt(name)[2]) \in SUBTITLE_EXTS
    /\ StartsWith(name, src_stem)

\* lines 1380-1399: one round of the loop, for a related subtitle; acc is
\* [fs, raised]
MoveSubtitle(acc, src_dir, dst_dir, src_stem, dst_stem, name, dry_run) ==
    LET full_src == PathJoin(src_dir, name)
        suffix == SubSeq(name, Len(src_stem) + 1, Len(name))
        full_dst == PathJoin(dst_dir, dst_stem \o suffix)
        made == makedirs(acc.fs, dst_dir)
    IN  IF acc.raised \/ full_src = full_dst \/ Exists(acc.fs, full_dst) \/ dry_run
        THEN acc
        ELSE IF makedirs_raises(acc.fs, dst_dir)
        THEN [acc EXCEPT !.raised = TRUE]
        ELSE IF shutil_move_raises(made, full_src, full_dst)
        THEN [fs |-> made, raised |-> TRUE]
        ELSE [fs |-> shutil_move(made, full_src, full_dst), raised |-> FALSE]

RECURSIVE MoveSubtitles(_, _, _, _, _, _, _)
MoveSubtitles(acc, names, src_dir, dst_dir, src_stem, dst_stem, dry_run) ==
    IF names = {} THEN acc
    ELSE LET name == CHOOSE n \in names : TRUE
         IN  MoveSubtitles(
                 MoveSubtitle(acc, src_dir, dst_dir, src_stem, dst_stem, name,
                              dry_run),
                 names \ {name}, src_dir, dst_dir, src_stem, dst_stem, dry_run)

\* the filesystem after the call; its exceptions are caught inside (line 1406)
move_related_subtitle_files(fs, src_video_path, dst_video_path, s) ==
    LET src_dir == Dirname(src_video_path)
        dst_dir == Dirname(dst_video_path)
        src_stem == SplitExt(Basename(src_video_path))[1]
        dst_stem == SplitExt(Basename(dst_video_path))[1]
        names == {n \in ListDir(fs, src_dir) :
                     IsRelatedSubtitle(fs, src_dir, src_stem, n)}
    IN  IF src_dir = <<>> \/ ~IsDir(fs, src_dir) THEN fs
        ELSE IF src_stem = <<>> \/ dst_stem = <<>> THEN fs
        ELSE MoveSubtitles([fs |-> fs, raised |-> FALSE], names, src_dir,
                           dst_dir, src_stem, dst_stem, s.dry_run).fs

\* round(n / d) for naturals, ties to the even neighbour as Python rounds
RoundDiv(n, d) ==
    IF 2 * (n % d) < d THEN n \div d
    ELSE IF 2 * (n % d) > d THEN (n \div d) + 1
    ELSE IF (n \div d) % 2 = 0 THEN n \div d
    ELSE (n \div d) + 1

\* three decimals, zero-padded
Pad3(n) ==
    IF n < 10 THEN <<"0", "0">> \o IntStr(n)
    ELSE IF n < 100 THEN <<"0">> \o IntStr(n)
    ELSE IntStr(n \div 10) \o IntStr(n % 10)

\* f"{float(w) / float(h):.3f}"
Fixed3(w, h) ==
    IF RoundDiv((w % h) * 1000, h) = 1000
    THEN IntStr((w \div h) + 1) \o <<".", "0", "0", "0">>
    ELSE IntStr(w \div h) \o <<".">> \o Pad3(RoundDiv((w % h) * 1000, h))

\* rec.get(f) for a numeric field; 0 stands for a missing or falsy value
GetNum(rec, f) == IF Has(rec, f) THEN rec[f] ELSE 0

-----------------------------------------------------------------------------
(* Translator (src/ai_translate.py).  A text setting is [str |-> is it a   *)
(* string, v |-> its characters]; api is what the service answers to the   *)
(* title call and to the plot call: [status, content].                     *)

\* _get_translate_config calls .strip() on every text setting: a truthy
\* value that is not a string raises
config_raises(s) ==
    \E f \in {"translate_api_base", "translate_api_key", "translate_model",
              "translate_temperature", "translate_prompt"} :
        ~s[f].str

\* lines 22-24: base_url, api_key and model as the calls see them
config_complete(s) ==
    /\ RStrip(Strip(s.translate_api_base.v), {"/"}) # <<>>
    /\ Strip(s.translate_api_key.v) # <<>>
    /\ Strip(s.translate_model.v) # <<>>

\* the body of the answer whatever its status
AnswerBody(s, answer) == Strip(answer.content)

\* the translation of one text, None on every failure
call_openai_compatible_api_for_text(s, answer) ==
    IF ~config_complete(s) THEN None
    ELSE IF answer.status # "ok" THEN None
    ELSE Strip(answer.content)

\* [raised |-> an exception left the function, title, plot |-> the
\* translations or None]
translate_title_and_plot(title, plot, s, api) ==
    IF config_raises(s) THEN [raised |-> TRUE, title |-> None, plot |-> None]
    ELSE IF ~s.translate_enable \/ (~s.translate_title /\ ~s.translate_plot)
    THEN [raised |-> FALSE, title |-> None, plot |-> None]
    ELSE [raised |-> FALSE,
          title |-> IF s.translate_title /\ title # <<>>
                    THEN call_openai_compatible_api_for_text(s, api.title)
                    ELSE None,
          plot |-> IF s.translate_plot /\ plot # <<>>
                   THEN call_openai_compatible_api_for_text(s, api.plot)
                   ELSE None]

\* a translation the caller uses: neither None nor empty
Translated(t) == t # None /\ t # <<>>

-----------------------------------------------------------------------------
(* Sidecar document.  An element is [tag, text, children]; the document is *)
(* the sequence of the children of <movie>, in document order.             *)

El(tag, text, children) == [tag |-> tag, text |-> text, children |-> children]

\* _set_text and _set_child: the element, unless the value is None or empty
\* after trimming
set_text(tag, value) ==
    IF value = None \/ Strip(value) = <<>> THEN <<>>
    ELSE <<El(tag, Strip(value), <<>>)>>

\* a number as _set_child gets it: None when it was not computed
NumText(present, n) == IF present THEN IntStr(n) ELSE None

\* lines 707: the title write_nfo_for_scene starts from
nfo_title(scene, video_path) ==
    IF GetStr(scene, "title") # <<>> THEN GetStr(scene, "title")
    ELSE IF SplitExt(Basename(video_path))[1] # <<>>
    THEN SplitExt(Basename(video_path))[1]
    ELSE Basename(video_path)

\* lines 722-732: the first file with a truthy duration, <<>> if none
RECURSIVE file_for_info(_)
file_for_info(fs) ==
    IF fs = <<>> THEN <<>>
    ELSE IF GetNum(Head(fs), "duration") # 0 THEN <<Head(fs)>>
    ELSE file_for_info(Tail(fs))

\* lines 822-853
video_children(f) ==
    set_text("codec", IF Has(f, "video_codec") THEN f.video_codec ELSE None)
    \o set_text("width", NumText(Has(f, "width"), GetNum(f, "width")))
    \o set_text("height", NumText(Has(f, "height"), GetNum(f, "height")))
    \o set_text("aspect",
                IF GetNum(f, "width") # 0 /\ GetNum(f, "height") # 0
                THEN Fixed3(f.width, f.height) ELSE None)
    \o set_text("durationinseconds", IntStr(f.duration))
    \o set_text("bitrate",
                NumText(GetNum(f, "bit_rate") # 0,
                        RoundDiv(GetNum(f, "bit_rate"), 1000)))
    \o set_text("filesize", NumText(Has(f, "size"), GetNum(f, "size")))

\* lines 818-857
fileinfo(found) ==
    IF found = <<>> THEN <<>>
    ELSE <<El("fileinfo", <<>>,
              <<El("streamdetails", <<>>,
                   <<El("video", <<>>, video_children(found[1])),
                     El("audio", <<>>,
                        set_text("codec",
                                 IF Has(found[1], "audio_codec")
                                 THEN found[1].audio_codec ELSE None))>>)>>)>>

\* lines 860-862
RECURSIVE genres(_)
genres(names) ==
    IF names = <<>> THEN <<>>
    ELSE set_text("genre", Head(names)) \o set_text("tag", Head(names))
         \o genres(Tail(names))

\* lines 878-887
RECURSIVE actors(_)
actors(performers) ==
    IF performers = <<>> THEN <<>>
    ELSE (IF GetStr(Head(performers), "name") = <<>> THEN <<>>
          ELSE <<El("actor", <<>>, <<El("name", Head(performers).name, <<>>)>>)>>)
         \o actors(Tail(performers))

\* lines 773-806: the top-level text fields, for the starting title, the
\* description plot, the variable map and the outcome tr of the translator
top_fields(title, plot, vars_map, scene, tr) ==
    set_text("title",
             IF Translated(tr.title) THEN title \o <<".">> \o tr.title ELSE title)
    \o set_text("originaltitle",
                IF vars_map.code # <<>> THEN vars_map.code \o <<" ">> \o title
                ELSE title)
    \o set_text("sorttitle",
                IF Translated(tr.title) THEN title \o <<".">> \o tr.title ELSE title)
    \o set_text("year", vars_map.date_year)
    \o set_text("premiered", vars_map.scene_date)
    \o set_text("releasedate", vars_map.scene_date)
    \o set_text("runtime",
                IF file_for_info(GetList(scene, "files")) = <<>> THEN <<>>
                ELSE IntStr(RoundDiv(file_for_info(GetList(scene, "files"))[1].duration, 60)))
    \o set_text("plot", IF Translated(tr.plot) THEN tr.plot ELSE plot)
    \o set_text("originalplot", plot)
    \o set_text("studio", vars_map.studio_name)
    \o set_text("director", vars_map.director)
    \o set_text("id", IF vars_map.external_id # <<>> THEN vars_map.external_id
                      ELSE IF vars_map.id = None THEN <<>> ELSE vars_map.id)
    \o set_text("code", vars_map.code)
    \o set_text("rating", vars_map.rating)
    \o set_text("url", IF GetList(scene, "urls") # <<>> THEN scene.urls[1] ELSE <<>>)

\* lines 865-875
ids_and_sets(vars_map) ==
    set_text("set", vars_map.group_name)
    \o set_text("collection", vars_map.group_name)
    \o (IF vars_map.external_id # <<>>
        THEN <<El("uniqueid", vars_map.external_id, <<>>)>> ELSE <<>>)
    \o (IF vars_map.id # None /\ vars_map.id # <<>>
        THEN <<El("uniqueid", vars_map.id, <<>>)>> ELSE <<>>)

\* lines 706-887: the children of <movie>
nfo_tree(scene, video_path, tr) ==
    top_fields(nfo_title(scene, video_path), GetStr(scene, "details"),
               build_template_vars(scene, video_path), scene, tr)
    \o fileinfo(file_for_info(GetList(scene, "files")))
    \o genres(NamesOf(GetList(scene, "tags")))
    \o ids_and_sets(build_template_vars(scene, video_path))
    \o actors(GetList(scene, "performers"))

\* the texts of a document, in document order
RECURSIVE Texts(_)
Texts(els) ==
    IF els = <<>> THEN <<>>
    ELSE (IF Head(els).text # <<>> THEN <<Head(els).text>> ELSE <<>>)
         \o Texts(Head(els).children) \o Texts(Tail(els))

\* lines 743-754: the outcome of the translator as write_nfo_for_scene sees
\* it; an exception is caught and leaves both translations None
translation(scene, video_path, s, api) ==
    translate_title_and_plot(nfo_title(scene, video_path),
                             GetStr(scene, "details"), s, api)

\* the content of the sidecar file: the texts of the document
nfo_document(scene, video_path, s, api) ==
    [kind |-> "nfo",
     data |-> Texts(nfo_tree(scene, video_path,
                             translation(scene, video_path, s, api)))]

s_nfo == <<".", "n", "f", "o">>

\* the filesystem after the call; a failing write is caught (line 905).
\* write_ok says whether the environment lets the write succeed.
write_nfo_for_scene(fs, video_path, scene, s, api, write_ok) ==
    LET nfo_path == SplitExt(video_path)[1] \o s_nfo
        nfo_dir == Dirname(nfo_path)
        made == makedirs(fs, nfo_dir)
    IN  IF ~s.write_nfo \/ s.dry_run THEN fs
        ELSE IF makedirs_raises(fs, nfo_dir) THEN fs
        ELSE IF ~write_ok \/ IsDir(made, nfo_path) THEN made
        ELSE FsWrite(made, nfo_path, nfo_document(scene, video_path, s, api))

-----------------------------------------------------------------------------
(* Artwork fetcher.  A response resp is what the server answers during one *)
(* _download_binary call: [status, content_type]; status "ok" means an     *)
(* attempt succeeded, "fail" that every attempt failed before writing,     *)
(* "partial" that the last attempt failed while streaming into the file.   *)

s_image == <<"i", "m", "a", "g", "e", "/">>

e_jpg == <<".", "j", "p", "g">>

e_jpeg == <<".", "j", "p", "e", "g">>

e_png == <<".", "p", "n", "g">>

e_webp == <<".", "w", "e", "b", "p">>

e_gif == <<".", "g", "i", "f">>

e_svg == <<".", "s", "v", "g">>

\* urlparse(url).path: the part before the query or fragment
RECURSIVE UrlPath(_)
UrlPath(url) ==
    IF url = <<>> \/ Head(url) \in {"?", "#"} THEN <<>>
    ELSE <<Head(url)>> \o UrlPath(Tail(url))

\* lines 649-670
GuessExt(content_type, url) ==
    LET ct == Lower(content_type)
        has(x) == Contains(ct, Tail(x))
        by_type ==
            IF ~Contains(ct, s_image) THEN <<>>
            ELSE IF has(e_jpeg) \/ has(e_jpg) THEN e_jpg
            ELSE IF has(e_png) THEN e_png
            ELSE IF has(e_webp) THEN e_webp
            ELSE IF has(e_gif) THEN e_gif
            ELSE IF has(e_svg) THEN e_svg
            ELSE <<>>
    IN  IF by_type # <<>> THEN by_type ELSE SplitExt(UrlPath(url))[2]

\* lines 674-678
FinalPath(dst_path, detect_ext, content_type, url) ==
    LET guessed_ext == GuessExt(content_type, url)
        lower_path == Lower(dst_path)
        has_known_ext ==
            \E e \in {e_jpg, e_jpeg, e_png, e_webp, e_gif} : EndsWith(lower_path, e)
    IN  IF detect_ext /\ guessed_ext # <<>> /\ ~has_known_ext
        THEN dst_path \o guessed_ext
        ELSE dst_path

\* [ok |-> the returned bool, fs |-> the filesystem after the call]
download_binary(fs, url, dst_path, detect_ext, resp) ==
    LET final_path == FinalPath(dst_path, detect_ext, resp.content_type, url)
        made == makedirs(fs, Dirname(final_path))
    IN  IF url = <<>> \/ resp.status = "fail" THEN [ok |-> FALSE, fs |-> fs]
        ELSE IF makedirs_raises(fs, Dirname(final_path)) THEN [ok |-> FALSE, fs |-> fs]
        ELSE IF IsDir(made, final_path) THEN [ok |-> FALSE, fs |-> made]
        ELSE IF resp.status = "partial"
        THEN [ok |-> FALSE,
              fs |-> FsWrite(made, final_path, [kind |-> "partial", data |-> <<url>>])]
        ELSE [ok |-> TRUE,
              fs |-> FsWrite(made, final_path, [kind |-> "image", data |-> <<url>>])]

\* the first of base + ext, in the order of exts, that exists; <<>> if none
RECURSIVE FirstExisting(_, _, _)
FirstExisting(fs, base, exts) ==
    IF exts = <<>> THEN <<>>
    ELSE IF Exists(fs, base \o Head(exts)) THEN base \o Head(exts)
    ELSE FirstExisting(fs, base, Tail(exts))

\* lines 1019-1027 and 1052-1060: the file with a known extension, else the
\* bare name, else nothing
FindArt(fs, base) ==
    LET with_ext == FirstExisting(fs, base, <<e_jpg, e_jpeg, e_png, e_webp, e_gif, e_svg>>)
    IN  IF with_ext # <<>> THEN with_ext
        ELSE IF Exists(fs, base) THEN base
        ELSE <<>>

RECURSIVE RemoveAll(_, _)
RemoveAll(fs, paths) ==
    IF paths = {} THEN fs
    ELSE LET q == CHOOSE x \in paths : TRUE
         IN  RemoveAll(IF IsFile(fs, q) THEN FsRemove(fs, q) ELSE fs, paths \ {q})

s_default_true == <<"d", "e", "f", "a", "u", "l", "t", "=", "t", "r", "u", "e">>

s_logo == <<"-", "l", "o", "g", "o">>

\* the filesystem after the call.  pil_ok: Pillow is installed and opens
\* the images.
overlay_studio_logo_on_poster(fs, poster_base, scene, s, resp, pil_ok) ==
    LET studio == IF Has(scene, "studio") THEN scene.studio ELSE [x \in {} |-> <<>>]
        studio_name == GetStr(studio, "name")
        studio_image_url == GetStr(studio, "image_path")
        poster_path == FindArt(fs, poster_base)
        logo_base == PathJoin(Dirname(poster_path), safe_segment(studio_name) \o s_logo)
        cached == FindArt(fs, logo_base)
        got == download_binary(fs, studio_image_url, logo_base, TRUE, resp)
        fs1 == IF cached # <<>> THEN fs ELSE got.fs
        logo_path == FindArt(fs1, logo_base)
        saved == FsWrite(fs1, poster_path,
                         [kind |-> "image",
                          data |-> Append(fs1.files[poster_path].data, studio_image_url)])
    IN  IF ~s.overlay_studio_logo_on_poster \/ s.dry_run THEN fs
        ELSE IF studio_name = <<>> \/ studio_image_url = <<>> THEN fs
        ELSE IF Contains(studio_image_url, s_default_true) THEN fs
        ELSE IF poster_path = <<>> \/ ~pil_ok THEN fs
        ELSE IF cached = <<>> /\ ~got.ok THEN fs1
        ELSE IF logo_path = <<>> \/ ~IsFile(fs1, logo_path) \/ ~IsFile(fs1, poster_path)
        THEN fs1
        ELSE RemoveAll(saved,
                 {logo_path} \cup
                 {logo_base \o e : e \in {e_jpg, e_jpeg, e_png, e_webp, e_gif, e_svg}})

s_poster == <<"-", "p", "o", "s", "t", "e", "r">>

\* the filesystem after the call
download_scene_art(fs, video_path, scene, s, resp, pil_ok) ==
    LET paths == IF Has(scene, "paths") THEN scene.paths ELSE [x \in {} |-> <<>>]
        poster_url == IF GetStr(paths, "screenshot") # <<>>
                      THEN GetStr(paths, "screenshot") ELSE GetStr(paths, "webp")
        base_name == SplitExt(Basename(video_path))[1]
        poster_base == PathJoin(Dirname(video_path), base_name \o s_poster)
        got == download_binary(fs, poster_url, poster_base, TRUE, resp)
    IN  IF ~s.download_poster \/ poster_url = <<>> THEN fs
        ELSE IF FirstExisting(fs, poster_base,
                              <<e_jpg, e_jpeg, e_png, e_webp, e_gif>>) # <<>>
        THEN fs
        ELSE IF s.dry_run THEN fs
        ELSE IF ~got.ok THEN got.fs
        ELSE overlay_studio_logo_on_poster(got.fs, poster_base, scene, s, resp, pil_ok)

s_actor_nfo == <<"a", "c", "t", "o", "r", ".", "n", "f", "o">>

s_folder_jpg == <<"f", "o", "l", "d", "e", "r", ".", "j", "p", "g">>

s_actors == <<"a", "c", "t", "o", "r", "s">>

\* the filesystem after the call; a failing write is caught (line 1264)
write_actor_nfo(fs, actor_dir, performer, s, write_ok) ==
    LET nfo_path == PathJoin(actor_dir, s_actor_nfo)
        made == makedirs(fs, actor_dir)
    IN  IF ~s.export_actor_nfo \/ GetStr(performer, "name") = <<>> \/ s.dry_run
        THEN fs
        ELSE IF makedirs_raises(fs, actor_dir) THEN fs
        ELSE IF ~write_ok \/ IsDir(made, nfo_path) THEN made
        ELSE FsWrite(made, nfo_path,
                     [kind |-> "actor_nfo", data |-> <<performer.name>>])

\* a performer filter that remembers nothing
NeverSeen(safe_name, seen_names) == FALSE

\* lines 1303-1305: was this sanitized name handled earlier in the scene
Seen(safe_name, seen_names) == safe_name \in seen_names

\* one thing done for the performer directory safe_name
Op(op, safe_name) == [op |-> op, name |-> safe_name]

\* lines 1294-1326: one round of the loop; acc is [fs, seen_names, raised,
\* ops]; ops lists, in order, the rounds that got past the filter ("visit"),
\* the calls of _download_binary ("image") and the calls of write_actor_nfo
\* that go on to write ("nfo")
ActorStep(acc, p, actors_root, s, resp, write_ok) ==
    LET name == GetStr(p, "name")
        safe_name == safe_segment(name)
        actor_dir == PathJoin(actors_root, safe_name)
        fs1 == IF s.dry_run THEN acc.fs ELSE makedirs(acc.fs, actor_dir)
        image_url == GetStr(p, "image_path")
        dst_path == PathJoin(actor_dir, s_folder_jpg)
        downloads == s.download_actor_images /\ image_url # <<>> /\ ~s.dry_run
                     /\ ~Exists(fs1, dst_path)
        fs2 == IF downloads
               THEN download_binary(fs1, image_url, dst_path, FALSE, resp).fs
               ELSE fs1
        fs3 == write_actor_nfo(fs2, actor_dir, p, s, write_ok)
    IN  IF acc.raised \/ name = <<>> \/ Seen(safe_name, acc.seen_names) THEN acc
        ELSE IF ~s.dry_run /\ makedirs_raises(acc.fs, actor_dir)
        THEN [acc EXCEPT !.raised = TRUE]
        ELSE [fs |-> fs3,
              seen_names |-> acc.seen_names \cup {safe_name},
              raised |-> FALSE,
              ops |-> acc.ops \o <<Op("visit", safe_name)>>
                      \o (IF downloads THEN <<Op("image", safe_name)>> ELSE <<>>)
                      \o (IF s.export_actor_nfo /\ ~s.dry_run
                          THEN <<Op("nfo", safe_name)>> ELSE <<>>)]

RECURSIVE ActorLoop(_, _, _, _, _, _)
ActorLoop(acc, performers, actors_root, s, resp, write_ok) ==
    IF performers = <<>> THEN acc
    ELSE ActorLoop(ActorStep(acc, Head(performers), actors_root, s, resp, write_ok),
                   Tail(performers), actors_root, s, resp, write_ok)

\* lines 1289-1290: is the actors directory created before the loop
MakeActorsRoot(s) == ~s.dry_run

\* [fs |-> the filesystem after the call, raised |-> an exception left it,
\* ops |-> what the loop did]
download_actor_images(fs, scene, s, resp, write_ok) ==
    LET performers == GetList(scene, "performers")
        target_root == Strip(s.target_root)
        actors_root == PathJoin(target_root, s_actors)
        fs1 == IF MakeActorsRoot(s) THEN makedirs(fs, actors_root) ELSE fs
        done == ActorLoop([fs |-> fs1, seen_names |-> {}, raised |-> FALSE,
                           ops |-> <<>>],
                          performers, actors_root, s, resp, write_ok)
    IN  IF ~s.download_actor_images /\ ~s.export_actor_nfo
        THEN [fs |-> fs, raised |-> FALSE, ops |-> <<>>]
        ELSE IF performers = <<>> \/ target_root = <<>>
        THEN [fs |-> fs, raised |-> FALSE, ops |-> <<>>]
        ELSE IF MakeActorsRoot(s) /\ makedirs_raises(fs, actors_root)
        THEN [fs |-> fs, raised |-> TRUE, ops |-> <<>>]
        ELSE [fs |-> done.fs, raised |-> done.raised, ops |-> done.ops]

-----------------------------------------------------------------------------
(* File mover *)

\* a mover that ignores dry_run
AlwaysMove(s) == TRUE

\* line 405: does move_file touch the filesystem itself
MoveGuard(s) == ~s.dry_run

\* What move_file does up to the call of post_process_moved_file: ret, the
\* bool it returns (True once it reaches the post-processing, whose
\* exceptions it catches); fs, the filesystem then; dst, the resolved
\* destination; moved, shutil.move ran to its end; err, why it returned early
Outcome(ret, fs, src, dst, moved, err) ==
    [ret |-> ret, fs |-> fs, src |-> src, dst |-> dst, moved |-> moved,
     err |-> err]

\* lines 403-417, once the destination dst is resolved; io_ok: shutil.move
\* meets no OS error
MoveTo(fs, src, dst, s, io_ok) ==
    IF ~MoveGuard(s) THEN Outcome(TRUE, fs, src, dst, FALSE, "none")
    ELSE IF makedirs_raises(fs, Dirname(dst))
    THEN Outcome(FALSE, fs, src, dst, FALSE, "makedirs")
    ELSE IF shutil_move_raises(makedirs(fs, Dirname(dst)), src, dst) \/ ~io_ok
    THEN Outcome(FALSE, makedirs(fs, Dirname(dst)), src, dst, FALSE, "move")
    ELSE Outcome(TRUE, shutil_move(makedirs(fs, Dirname(dst)), src, dst),
                 src, dst, TRUE, "none")

\* a mover that goes on when build_target_path raised
MoveUnchecked(fs, src, target, s, io_ok) ==
    IF src = <<>> THEN Outcome(FALSE, fs, src, <<>>, FALSE, "no_path")
    ELSE MoveTo(fs, src, target.path, s, io_ok)

\* lines 380-389, for the source path src and target, the outcome of
\* build_target_path
MoveResolved(fs, src, target, s, io_ok) ==
    IF src = <<>> THEN Outcome(FALSE, fs, src, <<>>, FALSE, "no_path")
    ELSE IF ~target.ok THEN Outcome(FALSE, fs, src, <<>>, FALSE, target.err)
    ELSE MoveTo(fs, src, target.path, s, io_ok)

move_file(fs, scene, file_obj, s, io_ok) ==
    MoveResolved(fs, GetStr(file_obj, "path"),
                 build_target_path(scene, GetStr(file_obj, "path"), s), s, io_ok)

-----------------------------------------------------------------------------
(* Scene pipeline orchestrator *)

\* lines 438-444
is_file_organized(scene, s) ==
    IF ~s.move_only_organized THEN TRUE
    ELSE IF Has(scene, "organized") THEN scene.organized
    ELSE FALSE

\* a gate that lets every scene through
AnyScene(scene) == TRUE

\* scene.get("organized"), as a truth value
SceneOrganized(scene) == Has(scene, "organized") /\ scene.organized

\* a log that reports no progress
NoProgress(num, den) == [num |-> 0, den |-> 1]

\* the progress task_log emits: p clamped to [0, 1], as the fraction
\* num/den
Clamp(num, den) ==
    IF num <= 0 THEN [num |-> 0, den |-> 1]
    ELSE IF num >= den THEN [num |-> 1, den |-> 1]
    ELSE [num |-> num, den |-> den]

\* the paths of the model's files
p_a == <<"/", "s", "/", "a", ".", "m">>

p_a_srt == <<"/", "s", "/", "a", ".", "s", "r", "t">>

p_b == <<"/", "s", "/", "b", ".", "m">>

p_D == <<"/", "t", "/", "D", ".", "m">>

u_shot == <<"/", "p", "?", "t">>

u_logo == <<"/", "l", ".", "p", "n", "g">>

u_face == <<"/", "i">>

Video(x) == [kind |-> "video", data |-> <<<<x>>>>]

\* the scenes the library may hold
ScenePool ==
    {[id |-> <<"1">>, organized |-> TRUE, title |-> <<"D">>,
      files |-> <<[path |-> p_a]>>,
      performers |-> <<[name |-> <<"J">>, image_path |-> u_face],
                       [name |-> <<" ", "J">>]>>,
      paths |-> [screenshot |-> u_shot],
      studio |-> [name |-> <<"A">>, image_path |-> u_logo]],
     [id |-> <<"2">>, organized |-> FALSE, title |-> <<"E">>,
      files |-> <<[path |-> p_b]>>],
     [id |-> <<"3">>, organized |-> TRUE, title |-> <<"D">>,
      files |-> <<[path |-> p_b], [path |-> p_D]>>],
     [id |-> <<"4">>, organized |-> TRUE, title |-> <<"E">>,
      files |-> <<[id |-> <<"9">>]>>],
     [id |-> <<"5">>, title |-> <<"E">>]}

\* a listing holds a scene at most once
SceneLists ==
    {l \in SeqsUpTo(ScenePool, MaxScenes) :
        \A i, j \in 1..Len(l) : i # j => l[i].id # l[j].id}

FeatureSets ==
    {[write_nfo |-> b, download_poster |-> b, download_actor_images |-> b,
      export_actor_nfo |-> b, overlay_studio_logo_on_poster |-> b,
      translate_enable |-> b, translate_title |-> b, translate_plot |-> b]
        : b \in BOOLEAN}

\* a text setting that is a string
TextSetting(v) == [str |-> TRUE, v |-> v]

\* a numeric setting where a string is expected
NumberSetting == [str |-> FALSE, v |-> <<"1">>]

SettingsPool ==
    {[target_root |-> r, filename_template |-> t, move_only_organized |-> m,
      dry_run |-> d, write_nfo |-> f.write_nfo,
      download_poster |-> f.download_poster,
      download_actor_images |-> f.download_actor_images,
      export_actor_nfo |-> f.export_actor_nfo,
      overlay_studio_logo_on_poster |-> f.overlay_studio_logo_on_poster,
      translate_enable |-> f.translate_enable,
      translate_title |-> f.translate_title,
      translate_plot |-> f.translate_plot,
      translate_api_base |-> TextSetting(<<"u", "/">>),
      translate_api_key |-> TextSetting(<<"k">>),
      translate_model |-> TextSetting(<<"m">>),
      translate_temperature |-> TextSetting(<<>>),
      translate_prompt |-> TextSetting(<<>>)]
        : r \in {s_root, <<" ">>}, t \in {t_title, t_default, t_missing},
          m \in BOOLEAN, d \in BOOLEAN, f \in FeatureSets}

c_webp == <<"i", "m", "a", "g", "e", "/", "w", "e", "b", "p">>

\* what the translation service answers to the title call and to the plot
\* call of one sidecar
Answer(status, content) == [status |-> status, content |-> content]

\* the answers of a run of the pipeline; the failing ones are drawn in the
\* sidecar specification (NfoAnswers)
ApiPool ==
    {[title |-> Answer("ok", <<"Z">>), plot |-> Answer("ok", <<"q">>)]}

\* what the server may answer during one post-processing step
RespPool ==
    {[status |-> st, content_type |-> c_webp] : st \in {"ok", "fail", "partial"}}

\* the filesystems a run may start from: "fresh" holds the sources, "taken"
\* also a file at the destination of title "D", "gone" lacks the source b,
\* "resumed" is what a run leaves that stopped after moving a to the
\* destination of title "D" and before anything else
Disks == {"fresh", "taken", "gone", "resumed"}

StartFiles(disk) ==
    [q \in {p_a_srt} \cup (IF disk # "resumed" THEN {p_a} ELSE {})
                     \cup (IF disk # "gone" THEN {p_b} ELSE {})
                     \cup (IF disk \in {"taken", "resumed"} THEN {p_D} ELSE {}) |->
        IF q = p_a THEN Video("a")
        ELSE IF q = p_b THEN Video("b")
        ELSE IF q = p_D THEN (IF disk = "resumed" THEN Video("a") ELSE Video("d"))
        ELSE [kind |-> "subtitle", data |-> <<<<"a">>>>]]

StartDirs(disk) ==
    {<<"/", "s">>} \cup (IF disk \in {"taken", "resumed"} THEN {s_root} ELSE {})

\* no move_file call is in progress
NoCall ==
    [src |-> <<>>, dst |-> <<>>, moved |-> FALSE,
     before |-> [files |-> <<>>, dirs |-> {}]]

PtOff ==
    /\ pt_in = [scene |-> [id |-> <<"0">>], file_path |-> <<>>,
                settings |-> [target_root |-> <<>>, filename_template |-> <<>>]]
    /\ pt_out = [ok |-> FALSE, err |-> "none", path |-> <<>>]
    /\ pt_pc = "off"

Init ==
    /\ settings \in SettingsPool
    /\ args \in {[mode |-> "all", hook_id |-> h] : h \in {None, <<"1">>, <<"2">>}}
    /\ scenes \in SceneLists
    /\ \E disk \in Disks :
          /\ files = StartFiles(disk)
          /\ dirs = StartDirs(disk)
    /\ files0 = files
    /\ dirs0 = dirs
    /\ pc = "start"
    /\ index = 0
    /\ fidx = 0
    /\ moved_count = 0
    /\ organized_scenes = 0
    /\ total_moved = 0
    /\ calls = <<>>
    /\ inflight = NoCall
    /\ progress = <<>>
    /\ msg = [kind |-> "none"]
    /\ PtOff

-----------------------------------------------------------------------------
(* handle_hook_or_task *)

total_scenes == Len(scenes)

\* lines 1446-1452: a hook invocation returns at once
HookReturn ==
    /\ pc = "start"
    /\ args.hook_id # None
    /\ msg' = [kind |-> "hook_return", scene_id |-> args.hook_id]
    /\ pc' = "done"
    /\ UNCHANGED <<settings, args, scenes, files, dirs, files0, dirs0, index,
                   fidx, moved_count, organized_scenes, total_moved, calls, inflight,
                   progress, pathVars>>

\* lines 1486-1498: a task invocation lists the scenes
TaskStart ==
    /\ pc = "start"
    /\ args.hook_id = None
    /\ IF total_scenes = 0
       THEN /\ msg' = [kind |-> "no_scenes"]
            /\ progress' = <<Clamp(0, 1), Clamp(1, 1)>>
            /\ pc' = "done"
            /\ index' = index
       ELSE /\ msg' = msg
            /\ progress' = <<Clamp(0, 1)>>
            /\ pc' = "scene"
            /\ index' = 1
    /\ UNCHANGED <<settings, args, scenes, files, dirs, files0, dirs0, fidx,
                   moved_count, organized_scenes, total_moved, calls, inflight, pathVars>>

\* lines 1506-1510
SkipUnorganized ==
    /\ pc = "scene"
    /\ index <= total_scenes
    /\ ~SceneOrganized(scenes[index])
    /\ progress' = Append(progress, Clamp(index, total_scenes))
    /\ index' = index + 1
    /\ UNCHANGED <<settings, args, scenes, files, dirs, files0, dirs0, pc, fidx,
                   moved_count, organized_scenes, total_moved, calls, inflight, msg,
                   pathVars>>

\* lines 1512-1517 and 425-436: an organized scene enters process_scene
BeginScene ==
    /\ pc = "scene"
    /\ index <= total_scenes
    /\ SceneOrganized(scenes[index])
    /\ organized_scenes' = organized_scenes + 1
    /\ progress' = Append(progress, Clamp(index, total_scenes))
    /\ moved_count' = 0
    /\ IF GetList(scenes[index], "files") = <<>>
       THEN /\ index' = index + 1
            /\ pc' = "scene"
            /\ fidx' = fidx
       ELSE /\ index' = index
            /\ pc' = "file"
            /\ fidx' = 1
    /\ UNCHANGED <<settings, args, scenes, files, dirs, files0, dirs0,
                   total_moved, calls, inflight, msg, pathVars>>

FsNow == [files |-> files, dirs |-> dirs]

\* the record of a move_file call that returned ret: what it was given,
\* what it did, and the filesystem before and after it
Call(ret, src, dst, moved, post, err, before, after) ==
    [scene |-> index, file |-> fidx, ret |-> ret, src |-> src, dst |-> dst,
     moved |-> moved, post |-> post, err |-> err, before |-> before,
     after |-> after]

\* a loop that a failing move_file ends
Abort(ret) == IF ret THEN "subtitles" ELSE "done"

\* lines 409-417 and 446-451: where the run goes once move_file knows what
\* it returns; after a failure the loop goes on with the next file
Resume(ret) == IF ret THEN "subtitles" ELSE "file"

\* lines 450-451 for a move_file call that got as far as r: it returns
\* False at once, or goes on to post_process_moved_file
AfterMove(r) ==
    /\ files' = r.fs.files
    /\ dirs' = r.fs.dirs
    /\ pc' = Resume(r.ret)
    /\ IF r.ret
       THEN /\ inflight' = [src |-> r.src, dst |-> r.dst, moved |-> r.moved,
                            before |-> FsNow]
            /\ UNCHANGED <<calls, fidx>>
       ELSE /\ calls' = Append(calls, Call(FALSE, r.src, r.dst, FALSE, FALSE,
                                           r.err, FsNow, r.fs))
            /\ fidx' = fidx + 1
            /\ inflight' = inflight

\* lines 446-451 and 378-408: one round of process_scene's loop, up to the
\* move
MoveFile ==
    /\ pc = "file"
    /\ fidx <= Len(scenes[index].files)
    /\ IF ~is_file_organized(scenes[index], settings)
       THEN /\ fidx' = fidx + 1
            /\ UNCHANGED <<files, dirs, calls, inflight, pc>>
       ELSE \E io_ok \in BOOLEAN :
               AfterMove(move_file(FsNow, scenes[index],
                                   scenes[index].files[fidx], settings, io_ok))
    /\ UNCHANGED <<settings, args, scenes, files0, dirs0, index, moved_count,
                   organized_scenes, total_moved, progress, msg, pathVars>>

\* the filesystem becomes fs and post-processing moves on to step next
PostStep(fs, next) ==
    /\ files' = fs.files
    /\ dirs' = fs.dirs
    /\ pc' = next
    /\ UNCHANGED <<settings, args, scenes, files0, dirs0, index, fidx,
                   moved_count, organized_scenes, total_moved, calls, inflight,
                   progress, msg, pathVars>>

\* line 1423
PostSubtitles ==
    /\ pc = "subtitles"
    /\ PostStep(move_related_subtitle_files(FsNow, inflight.src, inflight.dst,
                                            settings),
                "nfo")

\* line 1426
PostNfo ==
    /\ pc = "nfo"
    /\ \E api \in ApiPool, write_ok \in BOOLEAN :
          PostStep(write_nfo_for_scene(FsNow, inflight.dst, scenes[index],
                                       settings, api, write_ok),
                   "art")

\* line 1427
PostArt ==
    /\ pc = "art"
    /\ \E resp \in RespPool, pil_ok \in BOOLEAN :
          PostStep(download_scene_art(FsNow, inflight.dst, scenes[index],
                                      settings, resp, pil_ok),
                   "actors")

\* line 1428, then lines 411-414 and 450-451: move_file returns True
PostActors ==
    /\ pc = "actors"
    /\ \E resp \in RespPool, write_ok \in BOOLEAN :
          LET fs == download_actor_images(FsNow, scenes[index], settings, resp,
                                          write_ok).fs
          IN  /\ files' = fs.files
              /\ dirs' = fs.dirs
              /\ calls' = Append(calls, Call(TRUE, inflight.src, inflight.dst,
                                             inflight.moved, TRUE, "none",
                                             inflight.before, fs))
    /\ moved_count' = moved_count + 1
    /\ fidx' = fidx + 1
    /\ inflight' = NoCall
    /\ pc' = "file"
    /\ UNCHANGED <<settings, args, scenes, files0, dirs0, index,
                   organized_scenes, total_moved, progress, msg, pathVars>>

\* a total that keeps only the last scene's count
Overwrite(total, moved) == moved

\* line 1518: total_moved += moved
Accumulate(total, moved) == total + moved

\* lines 453-454 and 1517-1518: process_scene returns moved_count
EndScene ==
    /\ pc = "file"
    /\ fidx > Len(scenes[index].files)
    /\ total_moved' = Accumulate(total_moved, moved_count)
    /\ index' = index + 1
    /\ pc' = "scene"
    /\ UNCHANGED <<settings, args, scenes, files, dirs, files0, dirs0, fidx,
                   moved_count, organized_scenes, calls, inflight, progress, msg,
                   pathVars>>

\* lines 1521-1528: the final summary
Finish ==
    /\ pc = "scene"
    /\ index > total_scenes
    /\ msg' = [kind |-> "summary", scanned |-> total_scenes,
               organized |-> organized_scenes, moved |-> total_moved]
    /\ progress' = Append(progress, Clamp(1, 1))
    /\ pc' = "done"
    /\ UNCHANGED <<settings, args, scenes, files, dirs, files0, dirs0, index,
                   fidx, moved_count, organized_scenes, total_moved, calls, inflight,
                   pathVars>>

Next ==
    \/ HookReturn
    \/ TaskStart
    \/ SkipUnorganized
    \/ BeginScene
    \/ MoveFile
    \/ PostSubtitles
    \/ PostNfo
    \/ PostArt
    \/ PostActors
    \/ EndScene
    \/ Finish

Spec == Init /\ [][Next]_vars

-----------------------------------------------------------------------------
(* The build_target_path harness as a specification of its own *)

PipeOff ==
    /\ settings = [dry_run |-> TRUE]
    /\ args = [mode |-> "all", hook_id |-> None]
    /\ scenes = <<>>
    /\ files = <<>>
    /\ dirs = {}
    /\ files0 = <<>>
    /\ dirs0 = {}
    /\ pc = "off"
    /\ index = 0
    /\ fidx = 0
    /\ moved_count = 0
    /\ organized_scenes = 0
    /\ total_moved = 0
    /\ calls = <<>>
    /\ inflight = NoCall
    /\ progress = <<>>
    /\ msg = [kind |-> "none"]

InitPath == PathInit /\ PipeOff

NextPath == PtResolve /\ UNCHANGED pipeVars

SpecPath == InitPath /\ [][NextPath]_vars

-----------------------------------------------------------------------------
(* move_related_subtitle_files as a specification of its own: the source   *)
(* directory /s holds any of a few entries, the video /s/a.m is renamed    *)
(* to one of a few destinations, and one step runs the function.           *)

\* entries the source directory may hold
n_a_srt == <<"a", ".", "s", "r", "t">>

n_a_x_SRT == <<"a", ".", "x", ".", "S", "R", "T">>

n_ab_ass == <<"a", "b", ".", "a", "s", "s">>

n_a_txt == <<"a", ".", "t", "x", "t">>

n_b_vtt == <<"b", ".", "v", "t", "t">>

n_a_sub == <<"a", ".", "s", "u", "b">>

SubNames == {n_a_srt, n_a_x_SRT, n_ab_ass, n_a_txt, n_b_vtt}

d_s == <<"/", "s">>

\* the destinations of the video: another directory, the same directory
\* under another stem, and the source itself
SubDsts == {p_D, <<"/", "s", "/", "D", ".", "m">>, p_a}

\* the subtitle that is in the way at the destination of a.srt
SubTaken(dst) == PathJoin(Dirname(dst), SplitExt(Basename(dst))[1] \o <<".", "s", "r", "t">>)

SubFile(name) == [kind |-> "subtitle", data |-> <<name>>]

\* the regular files of the harness: the chosen entries of /s and, when
\* taken, a file at the target of a.srt
SubFiles(names, dst, taken) ==
    [q \in {PathJoin(d_s, n) : n \in names}
           \cup (IF taken THEN {SubTaken(dst)} ELSE {}) |->
        IF q = SubTaken(dst) /\ taken THEN SubFile(<<"o", "l", "d">>)
        ELSE SubFile(Basename(q))]

\* the directories of the harness: /s, perhaps a directory named a.sub in
\* it, and the destination directory when something is in it or it was made
SubDirs(dst, as_dir, made, taken) ==
    {d_s} \cup (IF as_dir THEN {PathJoin(d_s, n_a_sub)} ELSE {})
          \cup (IF made \/ taken THEN {Dirname(dst)} ELSE {})

InitSubs ==
    /\ settings \in {[dry_run |-> d] : d \in BOOLEAN}
    /\ args = [mode |-> "all", hook_id |-> None]
    /\ scenes = <<>>
    /\ \E names \in SUBSET SubNames, dst \in SubDsts, as_dir \in BOOLEAN,
          made \in BOOLEAN, taken \in BOOLEAN :
          /\ files = SubFiles(names, dst, taken)
          /\ dirs = SubDirs(dst, as_dir, made, taken)
          /\ inflight = [src |-> p_a, dst |-> dst, moved |-> ~settings.dry_run,
                         before |-> [files |-> files, dirs |-> dirs]]
    /\ files0 = files
    /\ dirs0 = dirs
    /\ pc = "subtitles"
    /\ index = 0
    /\ fidx = 0
    /\ moved_count = 0
    /\ organized_scenes = 0
    /\ total_moved = 0
    /\ calls = <<>>
    /\ progress = <<>>
    /\ msg = [kind |-> "none"]
    /\ PtOff

NextSubs == PostSubtitles

SpecSubs == InitSubs /\ [][NextSubs]_vars

-----------------------------------------------------------------------------
(* The sidecar document as a specification of its own: the scene, the      *)
(* translation settings and the answers of the service are drawn in the    *)
(* initial state and one step builds the document.                         *)

\* r with the field f set to v when on
With(r, on, f, v) == IF on THEN r @@ [x \in {f} |-> v] ELSE r

NfoFiles ==
    {<<>>,
     <<[path |-> p_D]>>,
     <<[path |-> p_D, duration |-> 90]>>,
     <<[path |-> p_D, duration |-> 90, width |-> 16, height |-> 9,
        bit_rate |-> 1500, size |-> 7, video_codec |-> <<"h">>,
        audio_codec |-> <<"a">>]>>}

NfoPerformers == {<<>>, <<[name |-> <<"J">>]>>, <<[name |-> <<" ">>]>>}

\* the optional metadata, all of it or none
NfoExtras(scene, on) ==
    IF ~on THEN scene
    ELSE scene @@ [date |-> s_date, studio |-> [name |-> s_Acme],
                   director |-> <<"d">>, rating100 |-> <<"8", "0">>,
                   urls |-> <<<<"/", "u">>>>, tags |-> <<[name |-> <<"g">>]>>,
                   groups |-> <<[group |-> [name |-> <<"s">>]]>>,
                   stash_ids |-> <<[stash_id |-> <<"x">>]>>]

NfoScenes ==
    {NfoExtras(
        With(With(With([id |-> <<"1">>, files |-> fl, performers |-> pf],
                       t # <<>>, "title", t),
                  d # <<>>, "details", d),
             c, "code", <<"c">>),
        e)
      : t \in {<<>>, <<"E">>}, d \in {<<>>, <<"p">>, <<" ">>}, c \in BOOLEAN,
        fl \in NfoFiles, pf \in NfoPerformers, e \in BOOLEAN}

\* base_url/api_key/model set, the key missing, or a numeric temperature
NfoConfigs ==
    {[translate_api_base |-> TextSetting(<<"u", "/">>),
      translate_api_key |-> k, translate_model |-> TextSetting(<<"m">>),
      translate_temperature |-> tmp, translate_prompt |-> TextSetting(<<>>)]
        : k \in {TextSetting(<<"k">>), TextSetting(<<" ">>)},
          tmp \in {TextSetting(<<>>), NumberSetting}}

NfoSettings ==
    {[translate_enable |-> en, translate_title |-> tt, translate_plot |-> tp,
      translate_api_base |-> c.translate_api_base,
      translate_api_key |-> c.translate_api_key,
      translate_model |-> c.translate_model,
      translate_temperature |-> c.translate_temperature,
      translate_prompt |-> c.translate_prompt]
        : en \in BOOLEAN, tt \in BOOLEAN, tp \in BOOLEAN, c \in NfoConfigs}

\* success, an empty translation, a non-200 status with a body, a response
\* without choices, no response
NfoAnswers ==
    {[title |-> a, plot |-> b]
        : a \in {Answer("ok", <<"Z">>), Answer("ok", <<" ">>),
                 Answer("http_error", <<"e">>), Answer("malformed", <<"e">>)},
          b \in {Answer("ok", <<"q">>), Answer("network_error", <<>>),
                 Answer("http_error", <<"e">>)}}

InitNfo ==
    /\ pt_in \in [scene : NfoScenes, video_path : {p_D},
                  settings : NfoSettings, api : NfoAnswers]
    /\ pt_out = [tr |-> [raised |-> FALSE, title |-> None, plot |-> None],
                 doc |-> <<>>]
    /\ pt_pc = "input"
    /\ PipeOff

\* lines 706-887 of write_nfo_for_scene
NfoBuild ==
    /\ pt_pc = "input"
    /\ pt_out' = [tr |-> translation(pt_in.scene, pt_in.video_path,
                                     pt_in.settings, pt_in.api),
                  doc |-> nfo_tree(pt_in.scene, pt_in.video_path,
                                   translation(pt_in.scene, pt_in.video_path,
                                               pt_in.settings, pt_in.api))]
    /\ pt_pc' = "done"
    /\ UNCHANGED pt_in

NextNfo == NfoBuild /\ UNCHANGED pipeVars

SpecNfo == InitNfo /\ [][NextNfo]_vars

-----------------------------------------------------------------------------
(* The name a download is saved under, as a specification of its own: the  *)
(* Content-Type, the URL and the target are drawn in the initial state and *)
(* one step computes final_path as _download_binary does with detect_ext.  *)

c_jpeg == <<"i", "m", "a", "g", "e", "/", "j", "p", "e", "g">>

c_PNG == <<"I", "M", "A", "G", "E", "/", "P", "N", "G">>

c_gif == <<"i", "m", "a", "g", "e", "/", "g", "i", "f">>

c_svg == <<"i", "m", "a", "g", "e", "/", "s", "v", "g", "+", "x", "m", "l">>

c_bmp == <<"i", "m", "a", "g", "e", "/", "b", "m", "p">>

c_html == <<"t", "e", "x", "t", "/", "h", "t", "m", "l">>

ContentTypes == {<<>>, c_webp, c_jpeg, c_PNG, c_gif, c_svg, c_bmp, c_html}

\* URLs without an extension, with an image extension (one before a query),
\* and with an extension that is no image type
u_a == <<"/", "a">>

u_a_png == <<"/", "a", ".", "p", "n", "g">>

u_a_gif_q == <<"/", "a", ".", "g", "i", "f", "?", "t", "=", "1">>

u_a_php == <<"/", "a", ".", "p", "h", "p">>

u_a_q_jpg == <<"/", "a", "?", "f", "=", "b", ".", "j", "p", "g">>

Urls == {u_a, u_a_png, u_a_gif_q, u_a_php, u_a_q_jpg}

\* targets as the callers build them: a poster base without an extension,
\* one whose stem contains a dot, one that already ends in .jpg
p_poster == <<"/", "t", "/", "D", "-", "p">>

p_dotted == <<"/", "t", "/", "D", ".", "v", "-", "p">>

p_withext == <<"/", "t", "/", "D", "-", "p", ".", "j", "p", "g">>

DstPaths == {p_poster, p_dotted, p_withext}

InitExt ==
    /\ pt_in \in [content_type : ContentTypes, url : Urls, dst_path : DstPaths]
    /\ pt_out = <<>>
    /\ pt_pc = "input"
    /\ PipeOff

\* lines 645-678 of _download_binary, detect_ext set
ExtDetect ==
    /\ pt_pc = "input"
    /\ pt_out' = FinalPath(pt_in.dst_path, TRUE, pt_in.content_type, pt_in.url)
    /\ pt_pc' = "done"
    /\ UNCHANGED pt_in

NextExt == ExtDetect /\ UNCHANGED pipeVars

SpecExt == InitExt /\ [][NextExt]_vars

-----------------------------------------------------------------------------
(* The actor export of one scene as a specification of its own: the        *)
(* performer list, the settings, the disk and the answers are drawn in the *)
(* initial state and one step runs download_actor_images.                  *)

MaxPerformers == 3

\* performers whose names sanitize to J (three ways), to K and to _, and
\* one without a name
PerformerPool ==
    {[name |-> <<"J">>, image_path |-> u_face],
     [name |-> <<" ", "J">>],
     [name |-> <<"J", " ">>, image_path |-> u_shot],
     [name |-> <<"K">>, image_path |-> u_face],
     [name |-> <<"?">>],
     [name |-> <<"_">>, image_path |-> u_face],
     [image_path |-> u_face]}

PerformerLists ==
    UNION {[1..n -> PerformerPool] : n \in 0..MaxPerformers}

ActorSettings ==
    {[target_root |-> s_root, dry_run |-> d, download_actor_images |-> i,
      export_actor_nfo |-> n]
        : d \in BOOLEAN, i \in BOOLEAN, n \in BOOLEAN}

\* an empty disk, or one where the first J already has a picture
ActorDisks ==
    {[files |-> <<>>, dirs |-> {}],
     FsWrite(makedirs([files |-> <<>>, dirs |-> {}],
                      PathJoin(PathJoin(s_root, s_actors), <<"J">>)),
             PathJoin(PathJoin(PathJoin(s_root, s_actors), <<"J">>), s_folder_jpg),
             [kind |-> "image", data |-> <<u_face>>])}

InitActors ==
    /\ pt_in \in [performers : PerformerLists, settings : ActorSettings,
                  fs : ActorDisks, resp : RespPool, write_ok : BOOLEAN]
    /\ pt_out = [fs |-> [files |-> <<>>, dirs |-> {}], raised |-> FALSE,
                 ops |-> <<>>]
    /\ pt_pc = "input"
    /\ PipeOff

\* lines 1268-1326
ActorsExport ==
    /\ pt_pc = "input"
    /\ pt_out' = download_actor_images(pt_in.fs,
                                       [id |-> <<"1">>,
                                        performers |-> pt_in.performers],
                                       pt_in.settings, pt_in.resp,
                                       pt_in.write_ok)
    /\ pt_pc' = "done"
    /\ UNCHANGED pt_in

NextActors == ActorsExport /\ UNCHANGED pipeVars

SpecActors == InitActors /\ [][NextActors]_vars

-----------------------------------------------------------------------------
(* safe_segment as a specification of its own: a segment is drawn in the   *)
(* initial state and one step sanitizes it once and twice.                 *)

MaxSegLen == 3

SegChars == {" ", "\t", "/", "\\", "?", "*", "a", "_"}

InitSeg ==
    /\ pt_in \in SeqsUpTo(SegChars, MaxSegLen)
    /\ pt_out = [once |-> <<>>, twice |-> <<>>]
    /\ pt_pc = "input"
    /\ PipeOff

\* lines 185-194, applied to the segment and to its own result
SegSanitize ==
    /\ pt_pc = "input"
    /\ pt_out' = [once |-> safe_segment(pt_in),
                  twice |-> safe_segment(safe_segment(pt_in))]
    /\ pt_pc' = "done"
    /\ UNCHANGED pt_in

NextSeg == SegSanitize /\ UNCHANGED pipeVars

SpecSeg == InitSeg /\ [][NextSeg]_vars

-----------------------------------------------------------------------------
(* main as a specification of its own.  The input pt_in says what the      *)
(* process meets: stdin, the text on standard input; connect, whether      *)
(* StashInterface can be built; config, what get_configuration gives;      *)
(* pipeline, whether handle_hook_or_task returns or raises (its steps are  *)
(* the specification Spec).  pt_out is standard output, line by line, and  *)
(* whether an exception left main.                                         *)

\* nothing, text that is no JSON, JSON that is no object, an object without
\* server_connection, one whose server_connection is a string, a full one
Stdins == {"empty", "garbage", "list", "no_conn", "conn_text", "conn"}

\* the configuration, a failing query, "plugins": null, no entry for the
\* plugin
Configs == {"ok", "query_fails", "plugins_null", "no_entry"}

\* lines 48-57: what main gets as json_input
read_input(stdin) == IF stdin \in {"empty", "garbage"} THEN "empty_object" ELSE stdin

\* lines 80-98: does load_settings raise
load_settings_raises(config) == config = "plugins_null"

Line(kind) == [kind |-> kind]

\* main goes on after printing the line
Printed(kind, next) ==
    /\ pt_out' = [pt_out EXCEPT !.lines = Append(@, Line(kind))]
    /\ pt_pc' = next

\* an exception leaves main: a traceback on standard error, nothing more on
\* standard output
Crashed ==
    /\ pt_out' = [pt_out EXCEPT !.crashed = TRUE]
    /\ pt_pc' = "exit"

InitMain ==
    /\ pt_in \in [stdin : Stdins, connect : {"ok", "raises"}, config : Configs,
                  pipeline : {"returns", "raises"}]
    /\ pt_out = [lines |-> <<>>, crashed |-> FALSE]
    /\ pt_pc = "start"
    /\ PipeOff

\* lines 1537-1539: the input is read and printed as Python prints it
MainRead ==
    /\ pt_pc = "start"
    /\ Printed("repr", "input")
    /\ UNCHANGED pt_in

\* lines 1541-1551
MainInput ==
    /\ pt_pc = "input"
    /\ IF read_input(pt_in.stdin) = "list" THEN Crashed
       ELSE IF read_input(pt_in.stdin) \in {"empty_object", "no_conn"}
       THEN Printed("error", "exit")
       ELSE IF read_input(pt_in.stdin) = "conn_text" THEN Crashed
       ELSE pt_pc' = "connect" /\ pt_out' = pt_out
    /\ UNCHANGED pt_in

\* line 1553
MainConnect ==
    /\ pt_pc = "connect"
    /\ IF pt_in.connect = "raises" THEN Crashed
       ELSE pt_pc' = "settings" /\ pt_out' = pt_out
    /\ UNCHANGED pt_in

\* lines 1554-1556
MainSettings ==
    /\ pt_pc = "settings"
    /\ IF load_settings_raises(pt_in.config) THEN Crashed
       ELSE pt_pc' = "run" /\ pt_out' = pt_out
    /\ UNCHANGED pt_in

\* lines 1561-1569
MainRun ==
    /\ pt_pc = "run"
    /\ IF pt_in.pipeline = "raises" THEN Printed("error", "exit")
       ELSE Printed("output", "exit")
    /\ UNCHANGED pt_in

NextMain ==
    \/ MainRead /\ UNCHANGED pipeVars
    \/ MainInput /\ UNCHANGED pipeVars
    \/ MainConnect /\ UNCHANGED pipeVars
    \/ MainSettings /\ UNCHANGED pipeVars
    \/ MainRun /\ UNCHANGED pipeVars

SpecMain == InitMain /\ [][NextMain]_vars

-----------------------------------------------------------------------------
(* AutoMover.auto_monitor (src/autoMove.py) as a specification of its own. *)
(* pt_in is the configuration; pt_pc the place in the loop: "loop" (top of *)
(* the try block), "running" (inside check_and_move), "sleeping" (the      *)
(* sleep of check_interval), "failed" (the sleep of 60 in the handler),    *)
(* "stopped" (after the loop); pt_out counts the cycles and the failed     *)
(* ones, and says what ended the loop.                                     *)

MaxCycles == 4

\* a counter that stops counting at MaxCycles
Count(n) == IF n < MaxCycles THEN n + 1 ELSE n

\* a handler that lets the exception end the loop
Reraise == [pc |-> "stopped", cause |-> "exception"]

\* lines 317-319: except Exception logs, sleeps 60 and goes round again
OnException == [pc |-> "failed", cause |-> "none"]

InitMonitor ==
    /\ pt_in \in [check_interval : {1, 300}]
    /\ pt_out = [cycle |-> 0, failed |-> 0, slept |-> 0, cause |-> "none"]
    /\ pt_pc = "loop"
    /\ PipeOff

\* lines 307-311: cycle += 1 and check_and_move is called
CycleBegin ==
    /\ pt_pc = "loop"
    /\ pt_out' = [pt_out EXCEPT !.cycle = Count(@)]
    /\ pt_pc' = "running"
    /\ UNCHANGED pt_in

\* lines 311-312: check_and_move returns
CycleReturns ==
    /\ pt_pc = "running"
    /\ pt_pc' = "sleeping"
    /\ UNCHANGED <<pt_in, pt_out>>

\* lines 317-318: check_and_move raises
CycleRaises ==
    /\ pt_pc = "running"
    /\ pt_out' = [pt_out EXCEPT !.failed = Count(@), !.cause = OnException.cause]
    /\ pt_pc' = OnException.pc
    /\ UNCHANGED pt_in

\* line 313: the sleep of check_interval ends
SleepEnds ==
    /\ pt_pc = "sleeping"
    /\ pt_out' = [pt_out EXCEPT !.slept = pt_in.check_interval]
    /\ pt_pc' = "loop"
    /\ UNCHANGED pt_in

\* line 319: the sleep of 60 ends
BackoffEnds ==
    /\ pt_pc = "failed"
    /\ pt_out' = [pt_out EXCEPT !.slept = 60]
    /\ pt_pc' = "loop"
    /\ UNCHANGED pt_in

\* lines 314-316: Ctrl-C inside the try block breaks the loop; line 319:
\* Ctrl-C during the handler's sleep leaves auto_monitor as an exception
KeyboardInterrupt ==
    /\ pt_pc \in {"loop", "running", "sleeping", "failed"}
    /\ pt_out' = [pt_out EXCEPT !.cause = "keyboard"]
    /\ pt_pc' = "stopped"
    /\ UNCHANGED pt_in

NextMonitor ==
    \/ CycleBegin /\ UNCHANGED pipeVars
    \/ CycleReturns /\ UNCHANGED pipeVars
    \/ CycleRaises /\ UNCHANGED pipeVars
    \/ SleepEnds /\ UNCHANGED pipeVars
    \/ BackoffEnds /\ UNCHANGED pipeVars
    \/ KeyboardInterrupt /\ UNCHANGED pipeVars

\* time.sleep returns and the statements at the top of the loop run; nothing
\* is assumed about check_and_move or about the keyboard
SpecMonitor ==
    /\ InitMonitor
    /\ [][NextMonitor]_vars
    /\ WF_vars(BackoffEnds /\ UNCHANGED pipeVars)
    /\ WF_vars(CycleBegin /\ UNCHANGED pipeVars)

-----------------------------------------------------------------------------
(* The retry loop of _download_binary as a specification of its own.       *)
(* pt_in holds the URL and what each request attempt meets: "ok", a        *)
(* failing request ("request") or a failure while the body is written      *)
(* ("write"); pt_out holds the attempts made, the seconds slept after      *)
(* each failure and the returned value ("none" while the call runs).       *)

\* line 637
max_attempts == 3

AttemptOutcomes == {"ok", "request", "write"}

\* a loop that retries at once
NoBackoff(attempt) == 0

\* line 693: time.sleep(2 * attempt)
Backoff(attempt) == 2 * attempt

InitRetry ==
    /\ pt_in \in [url : {<<>>, u_face},
                  outcomes : [1..max_attempts -> AttemptOutcomes]]
    /\ pt_out = [attempts |-> 0, waits |-> <<>>, ret |-> "none"]
    /\ pt_pc = "call"
    /\ PipeOff

\* lines 630-640: no URL, no request
RetryEnter ==
    /\ pt_pc = "call"
    /\ IF pt_in.url = <<>>
       THEN pt_out' = [pt_out EXCEPT !.ret = "false"] /\ pt_pc' = "done"
       ELSE pt_out' = pt_out /\ pt_pc' = "attempt"
    /\ UNCHANGED pt_in

\* lines 640-687: one attempt that succeeds returns True
AttemptSucceeds ==
    /\ pt_pc = "attempt"
    /\ pt_out.attempts < max_attempts
    /\ pt_in.outcomes[pt_out.attempts + 1] = "ok"
    /\ pt_out' = [pt_out EXCEPT !.attempts = @ + 1, !.ret = "true"]
    /\ pt_pc' = "done"
    /\ UNCHANGED pt_in

\* lines 688-693: one attempt that fails; the loop sleeps unless it was the
\* last
AttemptFails ==
    /\ pt_pc = "attempt"
    /\ pt_out.attempts < max_attempts
    /\ pt_in.outcomes[pt_out.attempts + 1] # "ok"
    /\ pt_out' = [pt_out EXCEPT
                    !.attempts = @ + 1,
                    !.waits = IF pt_out.attempts + 1 < max_attempts
                              THEN Append(@, Backoff(pt_out.attempts + 1))
                              ELSE @]
    /\ UNCHANGED <<pt_in, pt_pc>>

\* lines 695-696: the attempts are used up
RetryGivesUp ==
    /\ pt_pc = "attempt"
    /\ pt_out.attempts = max_attempts
    /\ pt_out' = [pt_out EXCEPT !.ret = "false"]
    /\ pt_pc' = "done"
    /\ UNCHANGED pt_in

NextRetry ==
    \/ RetryEnter /\ UNCHANGED pipeVars
    \/ AttemptSucceeds /\ UNCHANGED pipeVars
    \/ AttemptFails /\ UNCHANGED pipeVars
    \/ RetryGivesUp /\ UNCHANGED pipeVars

SpecRetry == InitRetry /\ [][NextRetry]_vars

-----------------------------------------------------------------------------
(* build_template_vars as a specification of its own.  Each of the scene's *)
(* optional fields is missing, null or set; the shape of a scene says      *)
(* which.                                                                  *)

VarFields ==
    {"id", "rating100", "date", "studio", "performers", "tags", "groups",
     "stash_ids"}

Shapes == [VarFields -> {"missing", "null", "set"}]

\* the value of a field that is set
SetValue(f) ==
    CASE f = "id" -> <<"7">>
      [] f = "rating100" -> <<"8", "0">>
      [] f = "date" -> s_date
      [] f = "studio" -> [id |-> <<"3">>, name |-> s_Acme]
      [] f = "performers" -> <<[name |-> <<"J">>]>>
      [] f = "tags" -> <<[name |-> <<"x">>]>>
      [] f = "groups" -> <<[group |-> [name |-> <<"G">>]]>>
      [] f = "stash_ids" -> <<[stash_id |-> <<"e">>]>>

\* the scene record of a shape: the fields that are set (a missing or null
\* field is outside the DOMAIN)
SceneOf(shape) ==
    [f \in {g \in VarFields : shape[g] = "set"} |-> SetValue(f)]

\* lines 250 and 260: scene.get("performers", []) and scene.get("tags", [])
\* give None for a field that is present and null, and the for loop over
\* None raises TypeError
template_vars_raises(shape) ==
    shape["performers"] = "null" \/ shape["tags"] = "null"

InitVars ==
    /\ pt_in \in [shape : Shapes, file_path : {s_video_mp4}]
    /\ pt_out = [raised |-> FALSE, vars |-> <<>>]
    /\ pt_pc = "input"
    /\ PipeOff

\* lines 221-313
VarsBuild ==
    /\ pt_pc = "input"
    /\ pt_out' = IF template_vars_raises(pt_in.shape)
                 THEN [raised |-> TRUE, vars |-> <<>>]
                 ELSE [raised |-> FALSE,
                       vars |-> build_template_vars(SceneOf(pt_in.shape),
                                                    pt_in.file_path)]
    /\ pt_pc' = "done"
    /\ UNCHANGED pt_in

NextVars == VarsBuild /\ UNCHANGED pipeVars

SpecVars == InitVars /\ [][NextVars]_vars

-----------------------------------------------------------------------------
(* get_all_scenes as a specification of its own.  The backend holds a      *)
(* finite list of pages and answers a request for page k with the k-th of  *)
(* them, or with an empty page beyond the list.                            *)

MaxPages == 3

MaxPerPage == 2

\* what find_scenes answers for the page number page
find_scenes(pages, page) == IF page \in DOMAIN pages THEN pages[page] ELSE <<>>

\* a list that holds the last page only
KeepLast(all_scenes, page_scenes) == page_scenes

\* line 590: all_scenes.extend(page_scenes)
Extend(all_scenes, page_scenes) == all_scenes \o page_scenes

InitPages ==
    /\ pt_in \in [pages : SeqsUpTo(SeqsUpTo({"a", "b"}, MaxPerPage), MaxPages)]
    /\ pt_out = [page |-> 1, all_scenes |-> <<>>, requested |-> <<>>]
    /\ pt_pc = "paging"
    /\ PipeOff

\* lines 576-591: one round of the loop that gets a page with scenes
PageFetched ==
    /\ pt_pc = "paging"
    /\ find_scenes(pt_in.pages, pt_out.page) # <<>>
    /\ pt_out' = [page |-> pt_out.page + 1,
                  all_scenes |-> Extend(pt_out.all_scenes,
                                        find_scenes(pt_in.pages, pt_out.page)),
                  requested |-> Append(pt_out.requested, pt_out.page)]
    /\ UNCHANGED <<pt_in, pt_pc>>

\* lines 576-586 and 593-594: an empty page ends the loop and the list is
\* returned
PagingStops ==
    /\ pt_pc = "paging"
    /\ find_scenes(pt_in.pages, pt_out.page) = <<>>
    /\ pt_out' = [pt_out EXCEPT !.requested = Append(@, pt_out.page)]
    /\ pt_pc' = "done"
    /\ UNCHANGED pt_in

NextPages ==
    \/ PageFetched /\ UNCHANGED pipeVars
    \/ PagingStops /\ UNCHANGED pipeVars

\* the loop is the only thread of the function: it goes on while it can
SpecPages == InitPages /\ [][NextPages]_vars /\ WF_vars(NextPages)

-----------------------------------------------------------------------------
(* AutoMover.check_and_move (src/autoMove.py) as a specification of its    *)
(* own.  The library is the list of the scenes the server knows under the  *)
(* download path; a scene is [id, organized, studio, performers, details], *)
(* studio and details saying whether the scene has one, performers how     *)
(* many.                                                                   *)

MaxLibrary == 2

\* the scenes a library may hold, before their ids
SceneTypes ==
    {[organized |-> FALSE, studio |-> FALSE, performers |-> 0, details |-> FALSE],
     [organized |-> FALSE, studio |-> TRUE, performers |-> 0, details |-> TRUE],
     [organized |-> FALSE, studio |-> FALSE, performers |-> 0, details |-> TRUE],
     [organized |-> FALSE, studio |-> FALSE, performers |-> 1, details |-> FALSE],
     [organized |-> TRUE, studio |-> TRUE, performers |-> 1, details |-> TRUE],
     [organized |-> TRUE, studio |-> FALSE, performers |-> 0, details |-> FALSE]}

WithId(t, i) ==
    [id |-> i, organized |-> t.organized, studio |-> t.studio,
     performers |-> t.performers, details |-> t.details]

Libraries ==
    {[i \in 1..Len(l) |-> WithId(l[i], i)] : l \in SeqsUpTo(SceneTypes, MaxLibrary)}

\* lines 152-158, the switches check_and_move reads
MoverConfigs ==
    [use_organized_flag : BOOLEAN, require_studio : BOOLEAN,
     require_performers : BOOLEAN, auto_scan : BOOLEAN, auto_identify : BOOLEAN]

\* lines 84-111: the scenes whose organized flag is organized_filter, or
\* nothing when the call fails (api_ok false)
get_scenes_in_path(library, organized_filter, api_ok) ==
    IF api_ok
    THEN SelectSeq(library, LAMBDA s : s.organized = organized_filter)
    ELSE <<>>

\* lines 160-176
is_scraped(config, scene) ==
    LET has_studio == scene.studio
        has_performers == scene.performers > 0
        has_details == scene.details
    IN  IF config.use_organized_flag THEN scene.organized
        ELSE IF config.require_studio /\ ~has_studio THEN FALSE
        ELSE IF config.require_performers /\ ~has_performers THEN FALSE
        ELSE has_details \/ has_studio \/ has_performers

\* line 272
need_scrape(config, scene) ==
    config.use_organized_flag \/ ~is_scraped(config, scene)

\* what a scene is once it was scraped and organized on the server
Organized(scene) ==
    [scene EXCEPT !.organized = TRUE, !.studio = TRUE, !.details = TRUE]

\* the libraries the server may hold a while after library: each scene as
\* it was, or scraped and organized
Later(library) ==
    {l \in [DOMAIN library -> {library[i] : i \in DOMAIN library}
                              \cup {Organized(library[i]) : i \in DOMAIN library}] :
        \A i \in DOMAIN library : l[i] \in {library[i], Organized(library[i])}}

\* lines 131-144 and 214-217: the organized flag of the scene scene_id
\* becomes organized
update_scene(library, scene_id, organized) ==
    [i \in DOMAIN library |->
        IF library[i].id = scene_id
        THEN [library[i] EXCEPT !.organized = organized]
        ELSE library[i]]

InitCheck ==
    /\ pt_in \in [config : MoverConfigs, library : Libraries]
    /\ pt_out = [library |-> pt_in.library, scenes |-> <<>>, identified |-> <<>>,
                 moved |-> <<>>, moved_count |-> 0]
    /\ pt_pc = "scan"
    /\ PipeOff

\* lines 250-254
ScanLibrary ==
    /\ pt_pc = "scan"
    /\ pt_pc' = "fetch"
    /\ UNCHANGED <<pt_in, pt_out>>

\* lines 256-267: the scenes that are not organized; none ends the cycle
FetchNew ==
    /\ pt_pc = "fetch"
    /\ \E api_ok \in BOOLEAN :
          LET found == get_scenes_in_path(pt_out.library, FALSE, api_ok)
          IN  /\ pt_out' = [pt_out EXCEPT !.scenes = found]
              /\ pt_pc' = IF found = <<>> THEN "done"
                          ELSE IF pt_in.config.auto_identify THEN "identify"
                          ELSE "move"
    /\ UNCHANGED pt_in

\* lines 267-280: the scenes that need it are sent to the scraper, and the
\* server has time to change them
IdentifyScenes ==
    /\ pt_pc = "identify"
    /\ \E later \in Later(pt_out.library) :
          pt_out' = [pt_out EXCEPT
                       !.identified =
                           SelectSeq(pt_out.scenes,
                                     LAMBDA s : need_scrape(pt_in.config, s)),
                       !.library = later]
    /\ pt_pc' = "refetch"
    /\ UNCHANGED pt_in

\* lines 282-287
RefetchScraped ==
    /\ pt_pc = "refetch"
    /\ \E api_ok \in BOOLEAN :
          pt_out' = [pt_out EXCEPT !.scenes =
                       IF pt_in.config.use_organized_flag
                       THEN get_scenes_in_path(pt_out.library, TRUE, api_ok)
                       ELSE SelectSeq(get_scenes_in_path(pt_out.library, FALSE, api_ok),
                                      LAMBDA s : is_scraped(pt_in.config, s))]
    /\ pt_pc' = "move"
    /\ UNCHANGED pt_in

\* lines 292-296 and 178-222: the next scene of the list is passed to
\* move_file; io_ok says whether the file was there and the move went
\* through, and then the scene's flag is updated
MoveScene ==
    /\ pt_pc = "move"
    /\ Len(pt_out.moved) < Len(pt_out.scenes)
    /\ \E io_ok \in BOOLEAN :
          LET scene == pt_out.scenes[Len(pt_out.moved) + 1]
          IN  pt_out' = [pt_out EXCEPT
                           !.moved = Append(@, scene),
                           !.moved_count = IF io_ok THEN @ + 1 ELSE @,
                           !.library =
                               IF io_ok
                               THEN update_scene(@, scene.id,
                                                 ~pt_in.config.use_organized_flag)
                               ELSE @]
    /\ UNCHANGED <<pt_in, pt_pc>>

\* lines 298-299
CheckDone ==
    /\ pt_pc = "move"
    /\ Len(pt_out.moved) = Len(pt_out.scenes)
    /\ pt_pc' = "done"
    /\ UNCHANGED <<pt_in, pt_out>>

NextCheck ==
    \/ ScanLibrary /\ UNCHANGED pipeVars
    \/ FetchNew /\ UNCHANGED pipeVars
    \/ IdentifyScenes /\ UNCHANGED pipeVars
    \/ RefetchScraped /\ UNCHANGED pipeVars
    \/ MoveScene /\ UNCHANGED pipeVars
    \/ CheckDone /\ UNCHANGED pipeVars

SpecCheck == InitCheck /\ [][NextCheck]_vars

-----------------------------------------------------------------------------
(* Properties *)

\* the scene carries a true organized mark
Marked(scene) == Has(scene, "organized") /\ scene.organized

\* the string is empty or only whitespace
Blank(str) == \A k \in 1..Len(str) : str[k] \in Whitespace

\* the sidecar path of a video
NfoOf(video_path) == SplitExt(video_path)[1] \o s_nfo

\* every file of every organized scene of the listing got its move_file call
AllVisited ==
    \A j \in DOMAIN scenes :
        Marked(scenes[j]) =>
            \A k \in DOMAIN GetList(scenes[j], "files") :
                \E i \in DOMAIN calls : calls[i].scene = j /\ calls[i].file = k

\* C1: in live mode a move_file call whose resolved destination exists
\* before the call leaves the destination's content as it was, leaves the
\* source where it was, and returns not-moved.
C1_NoOverwrite ==
    \A i \in DOMAIN calls :
        (~settings.dry_run /\ IsFile(calls[i].before, calls[i].dst)) =>
            /\ ~calls[i].ret
            /\ IsFile(calls[i].after, calls[i].dst)
            /\ calls[i].after.files[calls[i].dst]
                   = calls[i].before.files[calls[i].dst]
            /\ IsFile(calls[i].before, calls[i].src) =>
                   /\ IsFile(calls[i].after, calls[i].src)
                   /\ calls[i].after.files[calls[i].src]
                          = calls[i].before.files[calls[i].src]

\* C2: with dry_run set the filesystem stays as it was at the start of the
\* run, in every state of the pipeline: no directory is created, no file is
\* moved, written, downloaded or deleted.
C2_DryRunFrame ==
    settings.dry_run => (files = files0 /\ dirs = dirs0)

\* a dry run that took a file of a scene with performers, poster and studio
\* logo through the mover and the whole post-processing, every feature on
C2_DryRunWitness ==
    /\ settings.dry_run
    /\ settings.write_nfo
    /\ pc = "done"
    /\ \E i \in DOMAIN calls :
          /\ calls[i].ret
          /\ calls[i].post
          /\ GetList(scenes[calls[i].scene], "performers") # <<>>

\* the paths that some organized scene of the listing holds
OrganizedPaths ==
    UNION {{GetStr(scenes[j].files[k], "path") :
               k \in DOMAIN GetList(scenes[j], "files")} :
           j \in {n \in DOMAIN scenes : Marked(scenes[n])}}

\* C3: in task mode no move_file call and no post-processing is made for a
\* scene that is not marked organized, whatever move_only_organized is; the
\* scene's files stay in place; its progress value index/total is emitted;
\* and the loop goes on to the end of the listing.
C3_UnorganizedSkipped ==
    /\ \A i \in DOMAIN calls : Marked(scenes[calls[i].scene])
    /\ pc \in {"file", "subtitles", "nfo", "art", "actors"} =>
           Marked(scenes[index])
    /\ \A j \in DOMAIN scenes :
          ~Marked(scenes[j]) =>
              /\ j < index =>
                     /\ Len(progress) > j
                     /\ progress[j + 1] = Clamp(j, Len(scenes))
              /\ \A k \in DOMAIN GetList(scenes[j], "files") :
                    (/\ GetStr(scenes[j].files[k], "path") \notin OrganizedPaths
                     /\ GetStr(scenes[j].files[k], "path") \in DOMAIN files0) =>
                        /\ GetStr(scenes[j].files[k], "path") \in DOMAIN files
                        /\ files[GetStr(scenes[j].files[k], "path")]
                               = files0[GetStr(scenes[j].files[k], "path")]
    /\ (pc = "done" /\ msg.kind = "summary") =>
           /\ index = Len(scenes) + 1
           /\ msg.scanned = Len(scenes)
           /\ msg.organized = Cardinality({j \in DOMAIN scenes : Marked(scenes[j])})

\* a finished live task run, move_only_organized off, whose first scene is
\* not organized and holds a file, and whose second scene had a file moved
C3_SkipWitness ==
    /\ pc = "done"
    /\ ~settings.move_only_organized
    /\ ~settings.dry_run
    /\ Len(scenes) = 2
    /\ ~Marked(scenes[1])
    /\ GetList(scenes[1], "files") # <<>>
    /\ \E i \in DOMAIN calls : calls[i].scene = 2 /\ calls[i].moved

\* C4: a hook invocation for a scene that is not organized ends with a
\* "skipped" result and no move_file call; for an organized scene it makes a
\* move_file call for each of the scene's files and its message reports how
\* many of them returned True.
C4_HookProcesses ==
    (pc = "done" /\ args.hook_id # None) =>
        \A j \in DOMAIN scenes :
            scenes[j].id = args.hook_id =>
                IF ~Marked(scenes[j])
                THEN msg.kind = "skipped" /\ calls = <<>>
                ELSE /\ msg.kind = "processed"
                     /\ msg.moved = Cardinality({i \in DOMAIN calls : calls[i].ret})
                     /\ \A k \in DOMAIN GetList(scenes[j], "files") :
                           \E i \in DOMAIN calls : calls[i].file = k

\* the template names neither the extension nor the full original name
OmitsExtension(tpl) ==
    \A i \in DOMAIN tpl : tpl[i] \notin {Var("ext"), Var("original_basename")}

\* the extension of the source file, without its dot
SourceExt(file_path) == LStrip(SplitExt(Basename(file_path))[2], {"."})

\* the inputs of the worked example: studio Acme, date 2024-05-01, title
\* Demo, source video.mp4
ExampleInput ==
    [scene |-> [id |-> <<"1">>, title |-> s_Demo, date |-> s_date,
                studio |-> [name |-> s_Acme]],
     file_path |-> s_video_mp4,
     settings |-> [target_root |-> s_root,
                   filename_template |-> t_studio_date_title]]

\* C5: when the template omits the extension and the source file has one,
\* the resolved path ends in "." and the original extension; and the worked
\* example resolves to <root>/Acme/2024-05-01.Demo.mp4.
C5_ExtensionKept ==
    (pt_pc = "done" /\ pt_out.ok) =>
        /\ (/\ OmitsExtension(pt_in.settings.filename_template)
            /\ SourceExt(pt_in.file_path) # <<>>) =>
               EndsWith(pt_out.path, <<".">> \o SourceExt(pt_in.file_path))
        /\ pt_in = ExampleInput =>
               pt_out.path = s_root \o <<"/">> \o s_Acme \o <<"/">> \o s_date
                                 \o <<".">> \o s_Demo \o <<".", "m", "p", "4">>

\* the part of a resolved path below the target root
BelowRoot(path, root) == SubSeq(path, Len(root) + 2, Len(path))

\* a relative path whose segments are all non-empty and free of the illegal
\* characters and of the backslash
CleanSegments(rel) ==
    /\ rel # <<>>
    /\ Head(rel) # "/"
    /\ rel[Len(rel)] # "/"
    /\ \A k \in 1..Len(rel) : rel[k] \notin IllegalChars \cup {"\\"}
    /\ \A k \in 1..(Len(rel) - 1) : ~(rel[k] = "/" /\ rel[k + 1] = "/")

\* C6: whenever build_target_path returns, every segment of the result
\* below target_root is non-empty and holds none of < > : " | ? * and no
\* slash or backslash.
C6_SegmentsClean ==
    (pt_pc = "done" /\ pt_out.ok) =>
        CleanSegments(BelowRoot(pt_out.path, Strip(pt_in.settings.target_root)))

\* the keys of the template variable map
TemplateKeys == DOMAIN build_template_vars([id |-> <<"0">>], <<>>)

\* the configured template names a placeholder outside the variable map
UnknownPlaceholder ==
    \E i \in DOMAIN settings.filename_template :
        /\ settings.filename_template[i].t = "var"
        /\ settings.filename_template[i].v \notin TemplateKeys

\* C7: when the template names an unknown placeholder, every move_file call
\* returns not-moved for a configuration error, moves nothing, changes
\* nothing on the filesystem and runs no post-processing, and the run still
\* makes a call for every file of every organized scene.
C7_UnknownPlaceholder ==
    UnknownPlaceholder =>
        /\ \A i \in DOMAIN calls :
              /\ ~calls[i].ret
              /\ ~calls[i].moved
              /\ ~calls[i].post
              /\ calls[i].err \in {"no_path", "target_root", "template"}
              /\ calls[i].after = calls[i].before
        /\ \A i \in DOMAIN calls :
              (calls[i].src # <<>> /\ ~Blank(settings.target_root)) =>
                  calls[i].err = "template"
        /\ pc \notin {"subtitles", "nfo", "art", "actors"}
        /\ files = files0
        /\ dirs = dirs0
        /\ (pc = "done" /\ msg.kind = "summary") =>
               (AllVisited /\ msg.moved = 0)

\* a finished live run over a scene with two files, target root set, whose
\* template names an unknown placeholder: both files were visited and both
\* calls failed on the template
C7_PlaceholderWitness ==
    /\ pc = "done"
    /\ UnknownPlaceholder
    /\ ~settings.dry_run
    /\ ~Blank(settings.target_root)
    /\ Len(calls) = 2
    /\ calls[1].err = "template"
    /\ calls[2].err = "template"
    /\ calls[2].scene = calls[1].scene

\* C8: when target_root is empty or only whitespace, a whole run creates no
\* directory, moves and writes no file, counts no moved file and reports a
\* moved count of 0.
C8_NoTargetRoot ==
    Blank(settings.target_root) =>
        /\ files = files0
        /\ dirs = dirs0
        /\ moved_count = 0
        /\ total_moved = 0
        /\ pc \notin {"subtitles", "nfo", "art", "actors"}
        /\ \A i \in DOMAIN calls : ~calls[i].ret /\ ~calls[i].moved /\ ~calls[i].post
        /\ msg.kind = "summary" => msg.moved = 0

\* a finished live run with a blank target_root and every feature on, over
\* a scene with performers whose file was handed to move_file
C8_NoRootWitness ==
    /\ pc = "done"
    /\ msg.kind = "summary"
    /\ Blank(settings.target_root)
    /\ ~settings.dry_run
    /\ settings.download_actor_images
    /\ \E i \in DOMAIN calls :
          /\ calls[i].err = "target_root"
          /\ GetList(scenes[calls[i].scene], "performers") # <<>>

\* C9: whatever fails for a file, the run goes on: a task run ends only with
\* its summary, after every scene of the listing and every file of every
\* organized scene was visited, and a call that returned not-moved is
\* followed by the next file or scene.
C9_RunGoesOn ==
    /\ (pc = "done" /\ args.hook_id = None) =>
           msg.kind \in {"summary", "no_scenes"}
    /\ (pc = "done" /\ msg.kind = "summary") =>
           /\ index = Len(scenes) + 1
           /\ Len(progress) = Len(scenes) + 2
           /\ AllVisited
    /\ \A i \in DOMAIN calls :
          ~calls[i].ret =>
              \/ calls[i].scene < index
              \/ calls[i].scene = index /\ calls[i].file < fidx

\* a finished live run in which the move of the first file failed, the
\* sidecar of the second file could not be written, and the file of the
\* next scene was still handed to move_file
C9_FailureWitness ==
    /\ pc = "done"
    /\ msg.kind = "summary"
    /\ ~settings.dry_run
    /\ settings.write_nfo
    /\ Len(calls) = 3
    /\ calls[1].err = "move"
    /\ calls[2].ret
    /\ ~IsFile(calls[2].after, NfoOf(calls[2].dst))
    /\ calls[3].scene = 2

\* C10: a move_file call whose source equals the resolved destination, or
\* whose source does not exist, returns not-moved, moves nothing, runs no
\* post-processing and leaves the filesystem as it was, in live and in
\* dry-run mode.
C10_NoOpSkip ==
    \A i \in DOMAIN calls :
        (/\ calls[i].dst # <<>>
         /\ \/ calls[i].src = calls[i].dst
            \/ ~Exists(calls[i].before, calls[i].src)) =>
            /\ ~calls[i].ret
            /\ ~calls[i].moved
            /\ ~calls[i].post
            /\ calls[i].after = calls[i].before

\* the subtitle extensions of the contract
ContractSubtitleExts ==
    {<<".", "s", "r", "t">>, <<".", "a", "s", "s">>, <<".", "s", "s", "a">>,
     <<".", "v", "t", "t">>, <<".", "s", "u", "b">>, <<".", "s", "u", "p">>}

\* the entry name of the source directory is a subtitle of the video src
SubtitleOf(name, src) ==
    /\ Lower(SplitExt(name)[2]) \in ContractSubtitleExts
    /\ StartsWith(name, SplitExt(Basename(src))[1])

\* where the contract sends the subtitle name of the video src renamed dst
SubtitleTarget(name, src, dst) ==
    PathJoin(Dirname(dst),
             SplitExt(Basename(dst))[1]
                 \o SubSeq(name, Len(SplitExt(Basename(src))[1]) + 1, Len(name)))

\* the regular files of the source directory that the contract moves
SubtitlesToMove ==
    {q \in DOMAIN files0 :
        /\ Dirname(q) = Dirname(inflight.src)
        /\ SubtitleOf(Basename(q), inflight.src)
        /\ SubtitleTarget(Basename(q), inflight.src, inflight.dst) # q
        /\ SubtitleTarget(Basename(q), inflight.src, inflight.dst)
               \notin DOMAIN files0 \cup dirs0}

RECURSIVE HasEmptyElement(_)
HasEmptyElement(els) ==
    /\ els # <<>>
    /\ \/ Head(els).children = <<>> /\ Blank(Head(els).text)
       \/ HasEmptyElement(Head(els).children)
       \/ HasEmptyElement(Tail(els))

\* C12: no element of a document produced by write_nfo_for_scene is empty,
\* the fileinfo/streamdetails video and audio blocks and the actor entries
\* included.
C12_NoEmptyElement ==
    pt_pc = "done" => ~HasEmptyElement(pt_out.doc)

\* the texts of the top-level elements of a document with the given tag
RECURSIVE FieldOf(_, _)
FieldOf(els, tag) ==
    IF els = <<>> THEN <<>>
    ELSE (IF Head(els).tag = tag THEN <<Head(els).text>> ELSE <<>>)
         \o FieldOf(Tail(els), tag)

\* how a text shows in the document: trimmed, and not at all when blank
Shown(text) == IF Blank(text) THEN <<>> ELSE <<Strip(text)>>

\* the title and the description the scene comes with
OriginalTitle ==
    IF Has(pt_in.scene, "title") THEN pt_in.scene.title
    ELSE SplitExt(Basename(pt_in.video_path))[1]

OriginalPlot ==
    IF Has(pt_in.scene, "details") THEN pt_in.scene.details ELSE <<>>

\* the translation settings are all strings and name a service
ConfigUsable ==
    /\ \A f \in {"translate_api_base", "translate_api_key", "translate_model",
                 "translate_temperature", "translate_prompt"} :
          pt_in.settings[f].str
    /\ ~Blank(pt_in.settings.translate_api_base.v)
    /\ ~Blank(pt_in.settings.translate_api_key.v)
    /\ ~Blank(pt_in.settings.translate_model.v)

\* the call for one field (of the answers) is asked for and comes back with
\* a translation
CallSucceeds(flag, answer) ==
    /\ pt_in.settings.translate_enable
    /\ flag
    /\ ConfigUsable
    /\ answer.status = "ok"
    /\ ~Blank(answer.content)

\* the call for one field fails: by its answer or by the configuration
CallFails(answer) == answer.status # "ok" \/ ~ConfigUsable

\* C13: a failing translation call (non-200 status, network error, malformed
\* response, missing or ill-typed configuration) leaves the sidecar with the
\* original title and the original description; a succeeding one gives the
\* title <original title>.<translated title> and the translated plot;
\* originalplot is the untranslated description in every case.
C13_TranslationFallback ==
    pt_pc = "done" =>
        /\ CallFails(pt_in.api.title)
              => FieldOf(pt_out.doc, "title") = Shown(OriginalTitle)
        /\ CallFails(pt_in.api.plot)
              => FieldOf(pt_out.doc, "plot") = Shown(OriginalPlot)
        /\ CallSucceeds(pt_in.settings.translate_title, pt_in.api.title)
              => FieldOf(pt_out.doc, "title")
                    = <<OriginalTitle \o <<".">> \o Strip(pt_in.api.title.content)>>
        /\ CallSucceeds(pt_in.settings.translate_plot, pt_in.api.plot)
              /\ OriginalPlot # <<>>
              => FieldOf(pt_out.doc, "plot") = <<Strip(pt_in.api.plot.content)>>
        /\ FieldOf(pt_out.doc, "originalplot") = Shown(OriginalPlot)

\* a sidecar built with the title call answered by a non-200 status and the
\* plot call by a translation
C13_FallbackWitness ==
    /\ pt_pc = "done"
    /\ ConfigUsable
    /\ pt_in.settings.translate_enable
    /\ pt_in.settings.translate_title
    /\ pt_in.settings.translate_plot
    /\ pt_in.api.title.status = "http_error"
    /\ pt_in.api.plot.status = "ok"
    /\ OriginalPlot = <<"p">>
    /\ FieldOf(pt_out.doc, "title") = <<OriginalTitle>>
    /\ FieldOf(pt_out.doc, "plot") = <<<<"q">>>>
    /\ FieldOf(pt_out.doc, "originalplot") = <<<<"p">>>>

\* the image types the downloader knows, as suffixes
KnownImageExts == {e_jpg, e_jpeg, e_png, e_webp, e_gif, e_svg}

\* the suffix a Content-Type declares, <<>> when it declares no known image
\* type
DeclaredExt(content_type) ==
    IF ~Contains(Lower(content_type), s_image) THEN <<>>
    ELSE IF Contains(Lower(content_type), Tail(e_jpeg)) THEN e_jpg
    ELSE IF Contains(Lower(content_type), Tail(e_png)) THEN e_png
    ELSE IF Contains(Lower(content_type), Tail(e_webp)) THEN e_webp
    ELSE IF Contains(Lower(content_type), Tail(e_gif)) THEN e_gif
    ELSE IF Contains(Lower(content_type), Tail(e_svg)) THEN e_svg
    ELSE <<>>

\* what the saved name has after the target name
AddedSuffix == SubSeq(pt_out, Len(pt_in.dst_path) + 1, Len(pt_out))

\* the target does not already end in an image extension
BareTarget == \A e \in KnownImageExts : ~EndsWith(Lower(pt_in.dst_path), e)

\* C14: with detect_ext the saved file's suffix is the one of the declared
\* Content-Type when that is a known image type, otherwise the extension of
\* the URL path, and nothing is added when neither is a known image type.
C14_SuffixFromKnownType ==
    pt_pc = "done" /\ BareTarget =>
        /\ StartsWith(pt_out, pt_in.dst_path)
        /\ IF DeclaredExt(pt_in.content_type) # <<>>
           THEN AddedSuffix = DeclaredExt(pt_in.content_type)
           ELSE IF Lower(SplitExt(UrlPath(pt_in.url))[2]) \in KnownImageExts
           THEN AddedSuffix = SplitExt(UrlPath(pt_in.url))[2]
           ELSE AddedSuffix = <<>>

\* how often op was done for the directory name
RECURSIVE CountOp(_, _, _)
CountOp(ops, op, name) ==
    IF ops = <<>> THEN 0
    ELSE (IF Head(ops) = [op |-> op, name |-> name] THEN 1 ELSE 0)
         + CountOp(Tail(ops), op, name)

\* the directory names the performers of the input sanitize to
SanitizedNames ==
    {safe_segment(pt_in.performers[i].name) :
        i \in {k \in 1..Len(pt_in.performers) :
                  Has(pt_in.performers[k], "name")}}

\* C15: within one scene download_actor_images handles each distinct
\* sanitized performer name at most once: at most one image download and
\* one actor sidecar write, and when the export is enabled and does not
\* raise exactly one visit of actors/<name>/.
C15_OncePerName ==
    pt_pc = "done" =>
        \A name \in SanitizedNames :
            /\ CountOp(pt_out.ops, "visit", name) <= 1
            /\ CountOp(pt_out.ops, "image", name) <= 1
            /\ CountOp(pt_out.ops, "nfo", name) <= 1
            /\ (pt_in.settings.download_actor_images
                    \/ pt_in.settings.export_actor_nfo) /\ ~pt_out.raised
                  => CountOp(pt_out.ops, "visit", name) = 1

\* a live export of three performers who all sanitize to J, the first with
\* a picture: one visit, one download, one sidecar
C15_DuplicateWitness ==
    /\ pt_pc = "done"
    /\ Len(pt_in.performers) = 3
    /\ SanitizedNames = {<<"J">>}
    /\ ~pt_in.settings.dry_run
    /\ pt_out.ops = <<[op |-> "visit", name |-> <<"J">>],
                      [op |-> "image", name |-> <<"J">>],
                      [op |-> "nfo", name |-> <<"J">>]>>

\* C16: safe_segment is idempotent, safe_segment(safe_segment(s)) =
\* safe_segment(s) for every s, and its result is never the empty string.
C16_SegmentIdempotent ==
    pt_pc = "done" =>
        /\ pt_out.twice = pt_out.once
        /\ pt_out.once # <<>>

\* a segment of separators, illegal characters and surrounding whitespace
\* that sanitizing changes
C16_SegmentWitness ==
    /\ pt_pc = "done"
    /\ pt_in = <<" ", "/", "?">>
    /\ pt_out.once = <<"_", "_">>
    /\ pt_out.twice = <<"_", "_">>

\* what a live move_file returns for the file of the first call of the run,
\* from the filesystem the run started with and without a transient I/O
\* error
LiveFirstDecision ==
    move_file([files |-> files0, dirs |-> dirs0], scenes[calls[1].scene],
              scenes[calls[1].scene].files[calls[1].file],
              [settings EXCEPT !.dry_run = FALSE], TRUE).ret

\* C17: a dry run and a live run over the same scene, the same other
\* settings and the same initial filesystem take the same decisions; stated
\* for the first file a dry run handles: move_file reports for it what the
\* live run reports.
C17_SameDecisions ==
    settings.dry_run /\ calls # <<>> => calls[1].ret = LiveFirstDecision

C19_AlwaysResponds ==
    pt_pc = "exit" =>
        /\ ~pt_out.crashed
        /\ pt_out.lines # <<>>
        /\ pt_out.lines[Len(pt_out.lines)].kind \in {"output", "error"}

\* file k of scene j was moved by an earlier run that stopped before the
\* sidecar: its source is gone, its destination is there, the sidecar is not
Interrupted(j, k) ==
    LET src == GetStr(scenes[j].files[k], "path")
        target == build_target_path(scenes[j], src, settings)
    IN  /\ src # <<>>
        /\ target.ok
        /\ src \notin DOMAIN files0
        /\ target.path # src
        /\ target.path \in DOMAIN files0
        /\ NfoOf(target.path) \notin DOMAIN files0

\* C20: a live run over the same scene data after a run that stopped between
\* the move and the sidecar does not fail, moves nothing a second time and
\* gets to the sidecar of the file at its destination.
C20_Resumable ==
    pc = "done" /\ msg.kind = "summary" /\ ~settings.dry_run /\ settings.write_nfo =>
        \A j \in DOMAIN scenes :
            Marked(scenes[j]) =>
                \A k \in DOMAIN GetList(scenes[j], "files") :
                    Interrupted(j, k) =>
                        \E i \in DOMAIN calls :
                            /\ calls[i].scene = j
                            /\ calls[i].file = k
                            /\ ~calls[i].moved
                            /\ calls[i].post

\* C21: in auto_monitor an exception of a check_and_move cycle never ends
\* the loop: after a failing cycle a further cycle is eventually started
\* unless the keyboard interrupts, and the loop stops only on a keyboard
\* interrupt.
C21_MonitorGoesOn ==
    /\ (pt_pc = "failed") ~> (pt_pc = "running" \/ pt_out.cause = "keyboard")
    /\ [](pt_pc = "stopped" => pt_out.cause = "keyboard")
    /\ [](pt_out.failed > 0 /\ pt_out.cause # "keyboard" => pt_pc # "stopped")

\* a cycle running after two cycles failed
C21_MonitorWitness ==
    /\ pt_pc = "running"
    /\ pt_out.failed = 2
    /\ pt_out.cycle = 3
    /\ pt_out.slept = 60

\* the first attempt that meets no failure, 0 if there is none
FirstOk ==
    IF \E k \in DOMAIN pt_in.outcomes : pt_in.outcomes[k] = "ok"
    THEN CHOOSE k \in DOMAIN pt_in.outcomes :
            /\ pt_in.outcomes[k] = "ok"
            /\ \A j \in 1..(k - 1) : pt_in.outcomes[j] # "ok"
    ELSE 0

\* C22: _download_binary makes at most 3 attempts, stops at the first that
\* succeeds and returns true, sleeps 2s after the first failure and 4s
\* after the second and not after the third, and returns false when all
\* three fail.
C22_ThreeAttempts ==
    /\ pt_out.attempts <= 3
    /\ pt_pc = "done" /\ pt_in.url # <<>> =>
          IF FirstOk # 0
          THEN /\ pt_out.ret = "true"
               /\ pt_out.attempts = FirstOk
               /\ pt_out.waits = SubSeq(<<2, 4>>, 1, FirstOk - 1)
          ELSE /\ pt_out.ret = "false"
               /\ pt_out.attempts = 3
               /\ pt_out.waits = <<2, 4>>

\* a call whose third attempt is the first to succeed
C22_RetryWitness ==
    /\ pt_pc = "done"
    /\ pt_in.outcomes = <<"request", "write", "ok">>
    /\ pt_out = [attempts |-> 3, waits |-> <<2, 4>>, ret |-> "true"]

\* the poster of the video at video_path as download_scene_art names it,
\* before the extension of the image
PosterOf(video_path) ==
    PathJoin(Dirname(video_path), SplitExt(Basename(video_path))[1] \o s_poster)

\* the poster address of a scene, as download_scene_art reads it
PosterUrl(scene) ==
    LET paths == IF Has(scene, "paths") THEN scene.paths ELSE [x \in {} |-> <<>>]
    IN  IF GetStr(paths, "screenshot") # <<>>
        THEN GetStr(paths, "screenshot") ELSE GetStr(paths, "webp")

\* a whole image in fs at one of the names of base
WholeImage(fs, base) ==
    \E e \in {e_jpg, e_jpeg, e_png, e_webp, e_gif} :
        /\ IsFile(fs, base \o e)
        /\ fs.files[base \o e].kind = "image"

\* C23: a file is counted as moved only when its whole pipeline succeeded:
\* a move_file call of a live run that returned True (and so added one to
\* the moved count) resolved its path, moved the file, and left the sidecar
\* and the poster it was asked for on disk.
C23_CountedOnlyWhenWhole ==
    \A i \in DOMAIN calls :
        calls[i].ret /\ ~settings.dry_run =>
            /\ calls[i].err = "none"
            /\ calls[i].moved
            /\ settings.write_nfo => IsFile(calls[i].after, NfoOf(calls[i].dst))
            /\ settings.download_poster /\ PosterUrl(scenes[calls[i].scene]) # <<>> =>
                  WholeImage(calls[i].after, PosterOf(calls[i].dst))

\* the part of C23 the code keeps: a call that did not resolve its path or
\* whose move failed returned False, and the counts hold the True calls only
C23_MoveFailuresNotCounted ==
    /\ \A i \in DOMAIN calls :
          calls[i].ret /\ ~settings.dry_run =>
              calls[i].err = "none" /\ calls[i].moved
    /\ pc = "done" /\ msg.kind = "summary" =>
          msg.moved = Cardinality({i \in DOMAIN calls : calls[i].ret})

\* the keys of the map that are made from the field f of the scene
KeysOf(f) ==
    CASE f = "id" -> {"id"}
      [] f = "rating100" -> {"rating100", "rating"}
      [] f = "date" -> {"scene_date", "date_year", "date_month", "date_day"}
      [] f = "studio" -> {"studio", "studio_name", "studio_id"}
      [] f = "performers" -> {"performers", "first_performer"}
      [] f = "tags" -> {"tag_names", "tags"}
      [] f = "groups" -> {"group_name"}
      [] f = "stash_ids" -> {"external_id"}

\* the placeholder {k} expands to the empty string
ExpandsEmpty(vars_map, k) == Format(<<Var(k)>>, vars_map) = <<>>

\* C24: build_template_vars never fails and never yields an undefined
\* value: for every scene, whichever of id, rating100, date, studio,
\* performers, tags, groups and stash_ids are missing or null, every key of
\* the map is defined, the keys of a missing field expand to the empty
\* string and performer_count is 0.
C24_VarsAlwaysDefined ==
    pt_pc = "done" =>
        /\ ~pt_out.raised
        /\ \A k \in DOMAIN pt_out.vars : pt_out.vars[k] # None
        /\ \A f \in VarFields :
              pt_in.shape[f] # "set" =>
                  \A k \in KeysOf(f) : ExpandsEmpty(pt_out.vars, k)
        /\ pt_in.shape["performers"] # "set" =>
              pt_out.vars.performer_count = <<"0">>

\* the part of C24 the code keeps: when neither list is null the map is
\* built, and every missing field but id and rating100 gives empty strings
C24_OtherFieldsDegrade ==
    pt_pc = "done" =>
        /\ pt_out.raised = template_vars_raises(pt_in.shape)
        /\ ~pt_out.raised =>
              /\ \A f \in VarFields \ {"id", "rating100"} :
                    pt_in.shape[f] # "set" =>
                        \A k \in KeysOf(f) : ExpandsEmpty(pt_out.vars, k)
              /\ pt_in.shape["rating100"] # "set" => ExpandsEmpty(pt_out.vars, "rating")
              /\ pt_in.shape["performers"] # "set" =>
                    pt_out.vars.performer_count = <<"0">>

\* the number of the first empty page the backend answers
FirstEmpty ==
    CHOOSE k \in 1..(Len(pt_in.pages) + 1) :
        /\ find_scenes(pt_in.pages, k) = <<>>
        /\ \A j \in 1..(k - 1) : find_scenes(pt_in.pages, j) # <<>>

\* the pages 1..n of the backend, one after the other
RECURSIVE Concat(_, _)
Concat(pages, n) ==
    IF n = 0 THEN <<>> ELSE Concat(pages, n - 1) \o pages[n]

\* C25: get_all_scenes requests the pages 1, 2, 3, ... in order, stops at
\* the first empty page and returns the pages before it one after the
\* other, every scene of them once and in order; it ends whenever the
\* backend comes to an empty page.
C25_PagesInOrder ==
    /\ [](pt_out.requested = [i \in 1..Len(pt_out.requested) |-> i])
    /\ [](pt_pc = "done" =>
            /\ Len(pt_out.requested) = FirstEmpty
            /\ pt_out.all_scenes = Concat(pt_in.pages, FirstEmpty - 1))
    /\ <>(pt_pc = "done")

\* a call that got two pages, stopped at the empty third and returned the
\* three scenes of the two
C25_PagesWitness ==
    /\ pt_pc = "done"
    /\ pt_in.pages = <<<<"a", "b">>, <<"a">>, <<>>>>
    /\ pt_out.requested = <<1, 2, 3>>
    /\ pt_out.all_scenes = <<"a", "b", "a">>

\* the media file that was at path p before the run is still on disk with
\* its content, at p or under the target root
Kept(p) ==
    \E q \in DOMAIN files :
        /\ files[q] = files0[p]
        /\ q = p \/ StartsWith(q, Strip(settings.target_root))

\* C26: a live bulk run loses no media file: when it has ended, every video
\* that was on disk before it is still there with the same content, at its
\* original path or under target_root, also when two files resolve to the
\* same target path.
C26_NoFileLost ==
    pc = "done" /\ msg.kind = "summary" /\ ~settings.dry_run =>
        \A p \in DOMAIN files0 : files0[p].kind = "video" => Kept(p)

\* name is the stem of the video src followed by nothing or by a
\* '.'-separated suffix
OwnSubtitle(name, src) ==
    LET stem == SplitExt(Basename(src))[1]
    IN  /\ StartsWith(name, stem)
        /\ Len(name) = Len(stem) \/ name[Len(stem) + 1] = "."

\* C28: moving a video never takes along a subtitle of another video of the
\* source directory: after move_related_subtitle_files every file whose
\* name is not the source stem followed by nothing or by a '.'-separated
\* suffix is where it was (for a.m the file ab.ass stays).
C28_OnlyOwnSubtitles ==
    (pc = "nfo" /\ scenes = <<>>) =>
        \A q \in DOMAIN files0 :
            ~OwnSubtitle(Basename(q), inflight.src) =>
                q \in DOMAIN files /\ files[q] = files0[q]

\* C29: a download that does not complete leaves no file at its
\* destination: no file on disk is what a _download_binary call that
\* returned false had written of a poster or performer image.
C29_NoPartialFile ==
    \A q \in DOMAIN files : files[q].kind # "partial"

\* the fraction p is the number num/den
IsValue(p, num, den) == p.num * den = num * p.den

\* the fraction p is at most the fraction q
AtMost(p, q) == p.num * q.den <= q.num * p.den

\* the scenes the loop of the task has logged so far
Logged ==
    IF pc = "done" THEN total_scenes
    ELSE IF pc = "scene" THEN index - 1
    ELSE index

C27_OnlyScrapedMoved ==
    \A k \in DOMAIN pt_out.moved : is_scraped(pt_in.config, pt_out.moved[k])

\* the part of C27 the code keeps: with autoIdentify enabled the scenes
\* passed to move_file are those of the second fetch, all scraped
C27_ScrapedWhenIdentifying ==
    pt_in.config.auto_identify => C27_OnlyScrapedMoved

====
